---------------------------- MODULE Spec2Model ----------------------------
(***************************************************************************)
(* A model of the evaluation engine of text-to-mongo                       *)
(* (src/src/text_to_mongo/eval): the syntax layer (eval_syntax), the       *)
(* operator layer (extract_operators, eval_operators) and the field layer  *)
(* (extract_field_refs, eval_fields).                                      *)
(*                                                                         *)
(* Python values are modelled as follows.                                  *)
(*   str    a sequence of one-character strings, so that startswith and    *)
(*          split are computed on the characters                           *)
(*   JSON   a tagged record: JNull, JBool(b), JNum(n), JStr(s),            *)
(*          JArr(<<v1, ...>>), JObj(<< <<k1, v1>>, ... >>); a dict keeps   *)
(*          its insertion order and has no two items with the same key     *)
(*   set    a set                                                          *)
(*   list   a sequence                                                     *)
(* The layers are pure functions; each specification draws the arguments   *)
(* of a call in its initial state and its actions are the calls.           *)
(***************************************************************************)
EXTENDS Integers, Sequences, FiniteSets, TLC

VARIABLES
    pc,          \* "call" before a call, afterwards the name of the function that returned
    raw_output,  \* eval_syntax's argument: the prediction text, as JSON tokens
    syntax,      \* the SyntaxResult returned by eval_syntax
    obj,         \* the argument of extract_operators / extract_field_refs
    query_arg,   \* the query eval_operators / eval_fields is called with
    allowed_ops, \* the AllowedOps whose all_operators eval_operators is called with
    ops,         \* the set returned by extract_operators
    operators,   \* the OperatorResult returned by eval_operators
    refs,        \* the set returned by extract_field_refs
    schema,      \* eval_fields' SchemaDef, reduced to the list of its field names
    fields,      \* the FieldResult returned by eval_fields
    raised,      \* the exception the call raised, "None" if none
    example,           \* _eval_one's TrainingExample: collection, field names, allowed_ops
    prediction,        \* _eval_one's prediction text
    eval_one_result,   \* the EvalResult returned by _eval_one
    examples,          \* run_eval's examples
    predictions,       \* run_eval's predictions
    held_out_schemas,  \* run_eval's held_out_schemas: None or a set of collection names
    report,            \* the EvalReport returned by run_eval
    train_results,     \* eval_generalization's train_results
    held_out_results,  \* eval_generalization's held_out_results
    generalization,    \* the GeneralizationResult returned by eval_generalization
    loads_calls,       \* the number of calls of json.loads made since the call began
    evaluated,         \* the pairs of the batch evaluated out of order: index :> EvalResult
    reports            \* what the successive runs of run_eval on the batch gave

layer_vars ==
    <<raw_output, syntax, obj, query_arg, allowed_ops, ops, operators, refs, schema, fields>>
harness_vars ==
    <<example, prediction, eval_one_result, examples, predictions, held_out_schemas, report>>
generalization_vars == <<train_results, held_out_results, generalization>>

trace_vars == <<loads_calls, evaluated, reports>>

vars == <<pc, raised, layer_vars, harness_vars, generalization_vars, trace_vars>>

-----------------------------------------------------------------------------
(* Bounds of the model *)

\* nesting depth of the values given to the extractors
MaxDepth == 3
\* number of stages of a generated pipeline
MaxStages == 2

\* the depth of nesting at which json.loads raises RecursionError; the interpreter's limit
\* (sys.getrecursionlimit(), 1000 by default) scaled down
RecursionLimit == 6
\* number of pairs of a batch given to run_eval
MaxBatch == 2
\* number of results of the seen part and of the held-out part given to eval_generalization
MaxTrain == 4
MaxHeldOut == 5
\* number of runs of run_eval on one batch
MaxRuns == 2
\* nesting depth of the documents given to both eval_operators and eval_fields
MaxLayersDepth == 2

-----------------------------------------------------------------------------
(* str *)

Range(s) == {s[i] : i \in 1..Len(s)}

\* str.startswith(prefix)
startswith(s, prefix) ==
    /\ Len(s) >= Len(prefix)
    /\ SubSeq(s, 1, Len(prefix)) = prefix

\* s.split(sep)[0] for a one-character sep: the text before the first sep, or all of s
split_first(s, sep) ==
    LET hits == {i \in 1..Len(s) : s[i] = sep}
    IN  IF hits = {} THEN s
        ELSE SubSeq(s, 1, (CHOOSE i \in hits : \A j \in hits : i <= j) - 1)

\* s[1:]
drop_first(s) == SubSeq(s, 2, Len(s))

s_type == <<"t", "y", "p", "e">>
s_pipeline == <<"p", "i", "p", "e", "l", "i", "n", "e">>
s_filter == <<"f", "i", "l", "t", "e", "r">>
s_aggregate == <<"a", "g", "g", "r", "e", "g", "a", "t", "e">>
s_find == <<"f", "i", "n", "d">>
s_projection == <<"p", "r", "o", "j", "e", "c", "t", "i", "o", "n">>
s_sort == <<"s", "o", "r", "t">>
s_output == <<"o", "u", "t", "p", "u", "t">>
s_groupBy == <<"g", "r", "o", "u", "p", "B", "y">>
s_update == <<"u", "p", "d", "a", "t", "e">>
s_id == <<"_", "i", "d">>
s_status == <<"s", "t", "a", "t", "u", "s">>
s_total == <<"t", "o", "t", "a", "l">>
s_dept == <<"d", "e", "p", "t">>
s_amount == <<"a", "m", "o", "u", "n", "t">>
s_addr == <<"a", "d", "d", "r">>
s_address == <<"a", "d", "d", "r", "e", "s", "s">>
s_address_city == <<"a", "d", "d", "r", "e", "s", "s", ".", "c", "i", "t", "y">>
s_active == <<"a", "c", "t", "i", "v", "e">>
s_oops == <<"o", "o", "p", "s">>
ref_amount == <<"$", "a", "m", "o", "u", "n", "t">>
ref_dept == <<"$", "d", "e", "p", "t">>
ref_addr_city == <<"$", "a", "d", "d", "r", ".", "c", "i", "t", "y">>
ref_id == <<"$", "_", "i", "d">>
var_ROOT == <<"$", "$", "R", "O", "O", "T">>
op_group == <<"$", "g", "r", "o", "u", "p">>
op_bucket == <<"$", "b", "u", "c", "k", "e", "t">>
op_bucketAuto == <<"$", "b", "u", "c", "k", "e", "t", "A", "u", "t", "o">>
op_match == <<"$", "m", "a", "t", "c", "h">>
op_sum == <<"$", "s", "u", "m">>
op_sort == <<"$", "s", "o", "r", "t">>
op_where == <<"$", "w", "h", "e", "r", "e">>
op_out == <<"$", "o", "u", "t">>
op_date == <<"$", "d", "a", "t", "e">>

-----------------------------------------------------------------------------
(* JSON values, as json.loads builds them *)

JNull == [tag |-> "null"]
JBool(b) == [tag |-> "bool", bool |-> b]
JNum(n) == [tag |-> "num", num |-> n]
JStr(s) == [tag |-> "str", str |-> s]
JArr(elems) == [tag |-> "arr", elems |-> elems]
JObj(items) == [tag |-> "obj", items |-> items]

\* isinstance(v, dict), isinstance(v, list), isinstance(v, str)
is_dict(v) == v.tag = "obj"
is_list(v) == v.tag = "arr"
is_str(v) == v.tag = "str"

\* the keys of a dict, in order
dict_keys(d) == [i \in 1..Len(d.items) |-> d.items[i][1]]

\* key in d
has_key(d, key) == \E i \in 1..Len(d.items) : d.items[i][1] = key

\* d[key], for a key of d
get(d, key) == d.items[CHOOSE i \in 1..Len(d.items) : d.items[i][1] = key][2]

-----------------------------------------------------------------------------
(* eval/operators.py *)

UNSAFE_OPERATORS ==
    { <<"$", "w", "h", "e", "r", "e">>,
      <<"$", "f", "u", "n", "c", "t", "i", "o", "n">>,
      <<"$", "a", "c", "c", "u", "m", "u", "l", "a", "t", "o", "r">>,
      <<"$", "m", "e", "r", "g", "e">>,
      <<"$", "o", "u", "t">>,
      <<"$", "c", "u", "r", "r", "e", "n", "t", "O", "p">>,
      <<"$", "c", "o", "l", "l", "S", "t", "a", "t", "s">>,
      <<"$", "i", "n", "d", "e", "x", "S", "t", "a", "t", "s">>,
      <<"$", "p", "l", "a", "n", "C", "a", "c", "h", "e", "S", "t", "a", "t", "s">> }

_EJSON_KEYS ==
    { <<"$", "d", "a", "t", "e">>,
      <<"$", "o", "i", "d">>,
      <<"$", "n", "u", "m", "b", "e", "r", "L", "o", "n", "g">>,
      <<"$", "n", "u", "m", "b", "e", "r", "I", "n", "t">>,
      <<"$", "n", "u", "m", "b", "e", "r", "D", "o", "u", "b", "l", "e">>,
      <<"$", "n", "u", "m", "b", "e", "r", "D", "e", "c", "i", "m", "a", "l">>,
      <<"$", "b", "i", "n", "a", "r", "y">>,
      <<"$", "t", "i", "m", "e", "s", "t", "a", "m", "p">>,
      <<"$", "r", "e", "g", "e", "x">>,
      <<"$", "u", "n", "d", "e", "f", "i", "n", "e", "d">>,
      <<"$", "m", "i", "n", "K", "e", "y">>,
      <<"$", "m", "a", "x", "K", "e", "y">>,
      <<"$", "d", "b", "P", "o", "i", "n", "t", "e", "r">>,
      <<"$", "s", "y", "m", "b", "o", "l">>,
      <<"$", "c", "o", "d", "e">> }

\* is_operator_key without the exclusion of the literal wrappers
is_operator_key_any_dollar(key) == startswith(key, <<"$">>)

\* operators.py:35: the test that decides whether a dict key is collected
is_operator_key(key) ==
    startswith(key, <<"$">>) /\ key \notin _EJSON_KEYS

RECURSIVE extract_operators(_)
RECURSIVE extract_operators_items(_, _, _)
RECURSIVE extract_operators_elems(_, _, _)
RECURSIVE extract_operators_items_skipping(_, _, _)
RECURSIVE extract_operators_items_overwriting(_, _, _)

\* extract_operators_items taking a literal wrapper's value for a literal: no descent into it
extract_operators_items_skipping(items, i, acc) ==
    IF i > Len(items) THEN acc
    ELSE LET key == items[i][1]
             value == items[i][2]
         IN  IF key \in _EJSON_KEYS
             THEN extract_operators_items_skipping(items, i + 1, acc)
             ELSE extract_operators_items_skipping(items, i + 1,
                      (IF is_operator_key(key) THEN acc \cup {key} ELSE acc)
                          \cup extract_operators(value))

\* extract_operators_items starting a new set at every item: what an item brings replaces
\* what was collected before it
extract_operators_items_overwriting(items, i, acc) ==
    IF i > Len(items) THEN acc
    ELSE LET key == items[i][1]
             value == items[i][2]
             added == IF is_operator_key(key) THEN {key} ELSE {}
         IN  extract_operators_items_overwriting(items, i + 1, added \cup extract_operators(value))

\* for key, value in obj.items(): ... (items i.. of the dict, ops collected so far)
extract_operators_items(items, i, acc) ==
    IF i > Len(items) THEN acc
    ELSE LET key == items[i][1]
             value == items[i][2]
             added == IF is_operator_key(key) THEN acc \cup {key} ELSE acc
         IN  extract_operators_items(items, i + 1, added \cup extract_operators(value))

\* for item in obj: ops.update(extract_operators(item))
extract_operators_elems(elems, i, acc) ==
    IF i > Len(elems) THEN acc
    ELSE extract_operators_elems(elems, i + 1, acc \cup extract_operators(elems[i]))

extract_operators(o) ==
    IF is_dict(o) THEN extract_operators_items(o.items, 1, {})
    ELSE IF is_list(o) THEN extract_operators_elems(o.elems, 1, {})
    ELSE {}

\* AllowedOps, schema.py
AllowedOps(stage, expression) == [stage_operators |-> stage, expression_operators |-> expression]

\* AllowedOps.all_operators
all_operators(a) == a.stage_operators \o a.expression_operators

\* OperatorResult(), schema.py
OperatorResult ==
    [used_operators |-> {}, violations |-> {}, unsafe_operators |-> {}, passed |-> FALSE]

\* eval_operators forgetting the blocklist in passed
eval_operators_allow_list_only(query, allowed_list) ==
    LET used == extract_operators(query)
        violations == used \ Range(allowed_list)
    IN  [used_operators |-> used, violations |-> violations,
         unsafe_operators |-> used \cap UNSAFE_OPERATORS,
         passed |-> Cardinality(violations) = 0]

\* eval_operators looking for unsafe operators among the violations only
eval_operators_allow_list_first(query, allowed_list) ==
    LET used == extract_operators(query)
        violations == used \ Range(allowed_list)
        unsafe == violations \cap UNSAFE_OPERATORS
    IN  [used_operators |-> used, violations |-> violations,
         unsafe_operators |-> unsafe,
         passed |-> Cardinality(violations) = 0 /\ Cardinality(unsafe) = 0]

eval_operators(query, allowed_list) ==
    LET used == extract_operators(query)
        allowed_set == Range(allowed_list)
        violations == used \ allowed_set
        unsafe == used \cap UNSAFE_OPERATORS
        passed == Cardinality(violations) = 0 /\ Cardinality(unsafe) = 0
    IN  [used_operators |-> used, violations |-> violations,
         unsafe_operators |-> unsafe, passed |-> passed]

-----------------------------------------------------------------------------
(* eval/fields.py *)

IMPLICIT_FIELDS == { <<"_", "i", "d">> }

_ALIAS_OPERATORS ==
    { <<"$", "g", "r", "o", "u", "p">>,
      <<"$", "b", "u", "c", "k", "e", "t">>,
      <<"$", "b", "u", "c", "k", "e", "t", "A", "u", "t", "o">> }

\* fields.py:25: a str is a field reference
is_field_ref(s) ==
    startswith(s, <<"$">>) /\ ~startswith(s, <<"$", "$">>)

\* ref_root keeping the whole path
ref_root_whole_path(s) == drop_first(s)

\* fields.py:26-27: the root of the referenced path
ref_root(s) == split_first(drop_first(s), ".")

\* fields.py:41: the root of a plain key
key_root(key) == split_first(key, ".")

\* operator_value_context handing the current context on under another operator
operator_value_context_propagated(key, inside_alias_op) ==
    key \in _ALIAS_OPERATORS \/ inside_alias_op

\* fields.py:33-34: the alias context handed to the value of an operator key
operator_value_context(key, inside_alias_op) == key \in _ALIAS_OPERATORS

\* alias_value_context keeping the context for everything under an alias operator
alias_value_context_kept(inside_alias_op) == inside_alias_op

\* fields.py:38: the alias context handed to the value of an alias key (the default)
alias_value_context(inside_alias_op) == FALSE

\* fields.py:46: the alias context handed to the items of a list
list_item_context(inside_alias_op) == inside_alias_op

RECURSIVE extract_field_refs(_, _)
RECURSIVE extract_field_refs_items(_, _, _, _)
RECURSIVE extract_field_refs_elems(_, _, _, _)

\* for key, value in obj.items(): ...
extract_field_refs_items(items, i, inside_alias_op, acc) ==
    IF i > Len(items) THEN acc
    ELSE LET key == items[i][1]
             value == items[i][2]
             step ==
                 IF startswith(key, <<"$">>)
                 THEN acc \cup extract_field_refs(value, operator_value_context(key, inside_alias_op))
                 ELSE IF inside_alias_op
                 THEN acc \cup extract_field_refs(value, alias_value_context(inside_alias_op))
                 ELSE (acc \cup {key_root(key)}) \cup extract_field_refs(value, FALSE)
         IN  extract_field_refs_items(items, i + 1, inside_alias_op, step)

\* for item in obj: refs.update(extract_field_refs(item, _inside_alias_op=_inside_alias_op))
extract_field_refs_elems(elems, i, inside_alias_op, acc) ==
    IF i > Len(elems) THEN acc
    ELSE extract_field_refs_elems(elems, i + 1, inside_alias_op,
             acc \cup extract_field_refs(elems[i], list_item_context(inside_alias_op)))

extract_field_refs(o, inside_alias_op) ==
    IF is_str(o)
    THEN IF is_field_ref(o.str) THEN {ref_root(o.str)} ELSE {}
    ELSE IF is_dict(o) THEN extract_field_refs_items(o.items, 1, inside_alias_op, {})
    ELSE IF is_list(o) THEN extract_field_refs_elems(o.elems, 1, inside_alias_op, {})
    ELSE {}

\* SchemaDef.field_names, schema.py; a schema is modelled by the list of its field names
field_names(s) == Range(s)

\* FieldResult(), schema.py; coverage is the fraction <<numerator, denominator>>
FieldResult ==
    [referenced_fields |-> {}, hallucinated_fields |-> {}, coverage |-> <<0, 1>>, passed |-> FALSE]

\* scan_body choosing the body by the value of type
scan_body_by_type(query) ==
    IF has_key(query, s_type) /\ get(query, s_type) = JStr(s_aggregate) /\ has_key(query, s_pipeline)
    THEN get(query, s_pipeline)
    ELSE IF has_key(query, s_type) /\ get(query, s_type) = JStr(s_find) /\ has_key(query, s_filter)
    THEN get(query, s_filter)
    ELSE query

\* fields.py:52-57: the part of the query that is scanned
scan_body(query) ==
    IF has_key(query, s_pipeline) THEN get(query, s_pipeline)
    ELSE IF has_key(query, s_filter) THEN get(query, s_filter)
    ELSE query

\* strip_implicit leaving the implicit fields to extract_field_refs
strip_type_only(r) == r \ {s_type}

\* fields.py:61-62: refs -= IMPLICIT_FIELDS; refs.discard("type")
strip_implicit(r) == (r \ IMPLICIT_FIELDS) \ {s_type}

\* eval_fields counting every referenced field in the coverage
eval_fields_coverage_counting_all(query, schema_def) ==
    LET body == scan_body(query)
        found == strip_implicit(extract_field_refs(body, FALSE))
        schema_fields == field_names(schema_def)
        hallucinated == (found \ schema_fields) \ IMPLICIT_FIELDS
        coverage == IF schema_fields # {}
                    THEN <<Cardinality(found), Cardinality(schema_fields)>>
                    ELSE <<0, 1>>
    IN  [referenced_fields |-> found, hallucinated_fields |-> hallucinated,
         coverage |-> coverage, passed |-> Cardinality(hallucinated) = 0]

\* eval_fields reporting as referenced the references the schema has, as the coverage
\* counts them
eval_fields_reporting_declared(query, schema_def) ==
    LET body == scan_body(query)
        found == strip_implicit(extract_field_refs(body, FALSE))
        schema_fields == field_names(schema_def)
        hallucinated == (found \ schema_fields) \ IMPLICIT_FIELDS
        coverage == IF schema_fields # {}
                    THEN <<Cardinality(found \cap schema_fields), Cardinality(schema_fields)>>
                    ELSE <<0, 1>>
    IN  [referenced_fields |-> found \cap schema_fields, hallucinated_fields |-> hallucinated,
         coverage |-> coverage, passed |-> Cardinality(hallucinated) = 0]

\* eval_fields keeping _id and type when the schema declares them
eval_fields_keeping_declared(query, schema_def) ==
    LET body == scan_body(query)
        schema_fields == field_names(schema_def)
        found == extract_field_refs(body, FALSE) \ ((IMPLICIT_FIELDS \cup {s_type}) \ schema_fields)
        hallucinated == (found \ schema_fields) \ IMPLICIT_FIELDS
        coverage == IF schema_fields # {}
                    THEN <<Cardinality(found \cap schema_fields), Cardinality(schema_fields)>>
                    ELSE <<0, 1>>
    IN  [referenced_fields |-> found, hallucinated_fields |-> hallucinated,
         coverage |-> coverage, passed |-> Cardinality(hallucinated) = 0]

eval_fields(query, schema_def) ==
    LET body == scan_body(query)
        found == strip_implicit(extract_field_refs(body, FALSE))
        schema_fields == field_names(schema_def)
        hallucinated == (found \ schema_fields) \ IMPLICIT_FIELDS
        coverage == IF schema_fields # {}
                    THEN <<Cardinality(found \cap schema_fields), Cardinality(schema_fields)>>
                    ELSE <<0, 1>>
    IN  [referenced_fields |-> found, hallucinated_fields |-> hallucinated,
         coverage |-> coverage, passed |-> Cardinality(hallucinated) = 0]

-----------------------------------------------------------------------------
(* json.loads and json.dumps on the tokens of a text.  A text is the       *)
(* sequence of its JSON tokens; "junk" stands for any lexeme that is no    *)
(* JSON token.                                                             *)

Tok(t) == [tok |-> t]
TStr(s) == [tok |-> "str", str |-> s]
TNum(n) == [tok |-> "num", num |-> n]

\* what int() raises for a literal of more digits than sys.get_int_max_str_digits()
IntDigitsError == "ValueError: Exceeds the limit for integer string conversion"

\* the outcome of a parse: a value and the place after it, or the exception raised
parse_fail == [ok |-> FALSE, value |-> JNull, next |-> 0, exc |-> "JSONDecodeError"]
parse_ok(v, next) == [ok |-> TRUE, value |-> v, next |-> next, exc |-> "None"]
parse_raise(e) == [ok |-> FALSE, value |-> JNull, next |-> 0, exc |-> e]

tok_at(toks, i) == IF i <= Len(toks) THEN toks[i].tok ELSE "eof"

\* d[key] = value on the items of a dict: a repeated key keeps its place and takes the last value
dict_set(items, key, value) ==
    IF \E i \in 1..Len(items) : items[i][1] = key
    THEN [i \in 1..Len(items) |-> IF items[i][1] = key THEN <<key, value>> ELSE items[i]]
    ELSE Append(items, <<key, value>>)

RECURSIVE parse_value(_, _, _)
RECURSIVE parse_elements(_, _, _, _)
RECURSIVE parse_members(_, _, _, _)

\* the elements of an array after "[", up to and including "]"
parse_elements(toks, i, acc, depth) ==
    LET r == parse_value(toks, i, depth)
    IN  IF ~r.ok THEN r
        ELSE IF tok_at(toks, r.next) = ","
        THEN parse_elements(toks, r.next + 1, Append(acc, r.value), depth)
        ELSE IF tok_at(toks, r.next) = "]" THEN parse_ok(JArr(Append(acc, r.value)), r.next + 1)
        ELSE parse_fail

\* the members of an object after "{", up to and including "}"
parse_members(toks, i, acc, depth) ==
    IF tok_at(toks, i) # "str" \/ tok_at(toks, i + 1) # ":" THEN parse_fail
    ELSE LET r == parse_value(toks, i + 2, depth)
             items == dict_set(acc, toks[i].str, r.value)
         IN  IF ~r.ok THEN r
             ELSE IF tok_at(toks, r.next) = "," THEN parse_members(toks, r.next + 1, items, depth)
             ELSE IF tok_at(toks, r.next) = "}" THEN parse_ok(JObj(items), r.next + 1)
             ELSE parse_fail

\* the scanner of json.loads: depth is the number of arrays and objects it is inside of.
\* An array or object nested deeper than the interpreter's recursion limit raises
\* RecursionError, an integer literal of more digits than the interpreter converts
\* (the token "bigint") raises ValueError.
parse_value(toks, i, depth) ==
    LET t == tok_at(toks, i)
    IN  CASE t = "str" -> parse_ok(JStr(toks[i].str), i + 1)
          [] t = "num" -> parse_ok(JNum(toks[i].num), i + 1)
          [] t = "bigint" -> parse_raise(IntDigitsError)
          [] t = "true" -> parse_ok(JBool(TRUE), i + 1)
          [] t = "false" -> parse_ok(JBool(FALSE), i + 1)
          [] t = "null" -> parse_ok(JNull, i + 1)
          [] t = "[" -> IF depth >= RecursionLimit THEN parse_raise("RecursionError")
                        ELSE IF tok_at(toks, i + 1) = "]" THEN parse_ok(JArr(<<>>), i + 2)
                        ELSE parse_elements(toks, i + 1, <<>>, depth + 1)
          [] t = "{" -> IF depth >= RecursionLimit THEN parse_raise("RecursionError")
                        ELSE IF tok_at(toks, i + 1) = "}" THEN parse_ok(JObj(<<>>), i + 2)
                        ELSE parse_members(toks, i + 1, <<>>, depth + 1)
          [] OTHER -> parse_fail

\* json.loads(text): ok is FALSE where json.loads raises, exc is what it raises
json_loads(toks) ==
    LET r == parse_value(toks, 1, 0)
    IN  IF r.ok /\ r.next # Len(toks) + 1 THEN parse_fail ELSE r

RECURSIVE json_dumps(_)
RECURSIVE dumps_elems(_, _)
RECURSIVE dumps_items(_, _)

dumps_elems(elems, i) ==
    IF i > Len(elems) THEN <<>>
    ELSE (IF i > 1 THEN <<Tok(",")>> ELSE <<>>) \o json_dumps(elems[i]) \o dumps_elems(elems, i + 1)

dumps_items(items, i) ==
    IF i > Len(items) THEN <<>>
    ELSE (IF i > 1 THEN <<Tok(",")>> ELSE <<>>)
         \o <<TStr(items[i][1]), Tok(":")>> \o json_dumps(items[i][2])
         \o dumps_items(items, i + 1)

\* json.dumps(value), as the tests build a prediction text
json_dumps(v) ==
    CASE v.tag = "null" -> <<Tok("null")>>
      [] v.tag = "bool" -> <<Tok(IF v.bool THEN "true" ELSE "false")>>
      [] v.tag = "num" -> <<TNum(v.num)>>
      [] v.tag = "str" -> <<TStr(v.str)>>
      [] v.tag = "arr" -> <<Tok("[")>> \o dumps_elems(v.elems, 1) \o <<Tok("]")>>
      [] v.tag = "obj" -> <<Tok("{")>> \o dumps_items(v.items, 1) \o <<Tok("}")>>

-----------------------------------------------------------------------------
(* eval/syntax.py *)

\* SyntaxResult(), schema.py; type_value None is JNull
SyntaxResult ==
    [valid_json |-> FALSE, has_type |-> FALSE, type_value |-> JNull, has_body |-> FALSE,
     pipeline_well_formed |-> FALSE, passed |-> FALSE, errors |-> <<>>]

\* an error message: the text of the f-string and the values formatted into it
Msg(fmt, args) == [fmt |-> fmt, args |-> args]

\* result.errors.append(msg); return result
fail_with(result, msg) == [result EXCEPT !.errors = Append(@, msg)]

\* syntax.py:53: dollar_keys = [k for k in stage if k.startswith("$")]
dollar_keys(stage) == SelectSeq(dict_keys(stage), LAMBDA k : startswith(k, <<"$">>))

\* stage_ok accepting several $-keys
stage_ok_at_least_one(stage) == Len(dollar_keys(stage)) >= 1

\* syntax.py:54: the number of $-keys a stage may have
stage_ok(stage) == Len(dollar_keys(stage)) = 1

\* check_stages without the return after the first message
RECURSIVE check_stages_cascading(_, _)
check_stages_cascading(pipeline, i) ==
    IF i >= Len(pipeline) THEN <<>>
    ELSE LET stage == pipeline[i + 1]
             here == IF ~is_dict(stage)
                     THEN <<Msg("Pipeline stage {i} is not an object", <<JNum(i)>>)>>
                     ELSE IF Len(dollar_keys(stage)) # 1
                     THEN <<Msg("Pipeline stage {i} must have exactly one $-prefixed key, got {len(dollar_keys)}",
                                <<JNum(i), JNum(Len(dollar_keys(stage)))>>)>>
                     ELSE <<>>
         IN  here \o check_stages_cascading(pipeline, i + 1)

RECURSIVE check_stages(_, _)

\* syntax.py:49-58: the loop over the stages, stage i (0-based) onwards; the messages it appends
check_stages(pipeline, i) ==
    IF i >= Len(pipeline) THEN <<>>
    ELSE LET stage == pipeline[i + 1]
         IN  IF ~is_dict(stage)
             THEN <<Msg("Pipeline stage {i} is not an object", <<JNum(i)>>)>>
             ELSE IF ~stage_ok(stage)
             THEN <<Msg("Pipeline stage {i} must have exactly one $-prefixed key, got {len(dollar_keys)}",
                        <<JNum(i), JNum(Len(dollar_keys(stage)))>>)>>
             ELSE check_stages(pipeline, i + 1)

\* check_aggregate testing the pipeline for truth where it should test the key for
\* presence: an empty pipeline counts as missing
check_aggregate_truthy_pipeline(parsed, result) ==
    IF ~has_key(parsed, s_pipeline) \/ get(parsed, s_pipeline) = JArr(<<>>)
    THEN fail_with(result, Msg("Aggregate query missing 'pipeline'", <<>>))
    ELSE LET r3 == [result EXCEPT !.has_body = TRUE]
             pipeline == get(parsed, s_pipeline)
         IN  IF ~is_list(pipeline)
             THEN fail_with(r3, Msg("'pipeline' must be a list", <<>>))
             ELSE LET errs == check_stages(pipeline.elems, 0)
                  IN  IF errs # <<>>
                      THEN [r3 EXCEPT !.errors = @ \o errs]
                      ELSE [r3 EXCEPT !.pipeline_well_formed = TRUE, !.passed = TRUE]

\* syntax.py:37-59: the aggregate branch
check_aggregate(parsed, result) ==
    IF ~has_key(parsed, s_pipeline)
    THEN fail_with(result, Msg("Aggregate query missing 'pipeline'", <<>>))
    ELSE LET r3 == [result EXCEPT !.has_body = TRUE]
             pipeline == get(parsed, s_pipeline)
         IN  IF ~is_list(pipeline)
             THEN fail_with(r3, Msg("'pipeline' must be a list", <<>>))
             ELSE LET errs == check_stages(pipeline.elems, 0)
                  IN  IF errs # <<>>
                      THEN [r3 EXCEPT !.errors = @ \o errs]
                      ELSE [r3 EXCEPT !.pipeline_well_formed = TRUE, !.passed = TRUE]

\* check_find leaving pipeline_well_formed to aggregate queries
check_find_without_flag(parsed, result) ==
    IF ~has_key(parsed, s_filter)
    THEN fail_with(result, Msg("Find query missing 'filter'", <<>>))
    ELSE LET r3 == [result EXCEPT !.has_body = TRUE]
         IN  IF ~is_dict(get(parsed, s_filter))
             THEN fail_with(r3, Msg("'filter' must be an object", <<>>))
             ELSE [r3 EXCEPT !.passed = TRUE]

\* syntax.py:61-70: the find branch
check_find(parsed, result) ==
    IF ~has_key(parsed, s_filter)
    THEN fail_with(result, Msg("Find query missing 'filter'", <<>>))
    ELSE LET r3 == [result EXCEPT !.has_body = TRUE]
         IN  IF ~is_dict(get(parsed, s_filter))
             THEN fail_with(r3, Msg("'filter' must be an object", <<>>))
             ELSE [r3 EXCEPT !.pipeline_well_formed = TRUE, !.passed = TRUE]

\* syntax.py:32: parsed["type"] not in ("aggregate", "find")
type_ok(type) == type \in {JStr(s_aggregate), JStr(s_find)}

\* syntax.py:13-15: what eval_syntax lets through of what json.loads raises ("None" when
\* eval_syntax returns): the except clause names JSONDecodeError and TypeError only
eval_syntax_raises(raw) ==
    LET loaded == json_loads(raw)
    IN  IF loaded.exc \in {"None", "JSONDecodeError", "TypeError"} THEN "None" ELSE loaded.exc

eval_syntax(raw) ==
    LET loaded == json_loads(raw)
        parsed == loaded.value
        r1 == [SyntaxResult EXCEPT !.valid_json = TRUE]
    IN  IF ~loaded.ok THEN fail_with(SyntaxResult, Msg("Invalid JSON", <<>>))
        ELSE IF ~is_dict(parsed) THEN fail_with(r1, Msg("Top-level value must be an object", <<>>))
        ELSE IF ~has_key(parsed, s_type) THEN fail_with(r1, Msg("Missing 'type' field", <<>>))
        ELSE LET type == get(parsed, s_type)
                 r2 == [r1 EXCEPT !.has_type = TRUE, !.type_value = type]
             IN  IF ~type_ok(type)
                 THEN fail_with(r2, Msg("Invalid type '{parsed['type']}'; expected 'aggregate' or 'find'", <<type>>))
                 ELSE IF type = JStr(s_aggregate) THEN check_aggregate(parsed, r2)
                 ELSE IF type = JStr(s_find) THEN check_find(parsed, r2)
                 ELSE [r2 EXCEPT !.passed = TRUE]

-----------------------------------------------------------------------------
(* float: Python's float is the IEEE 754 binary64.  A float is a sign, an  *)
(* exponent and the 53 bits of its significand, most significant first;    *)
(* its value is (-1)^sign * 1.b2...b53 * 2^exp.  0.0 has no bits.          *)

SignificandBits == 53

float_zero == [sign |-> 0, exp |-> 0, bits |-> <<>>]

RECURSIVE zeros(_)
zeros(n) == IF n <= 0 THEN <<>> ELSE <<0>> \o zeros(n - 1)

\* p and n scaled by powers of two until n <= p < 2n, with the exponent of p/n
RECURSIVE normalise_quotient(_, _, _)
normalise_quotient(p, n, e) ==
    IF p >= 2 * n THEN normalise_quotient(p, 2 * n, e + 1)
    ELSE IF p < n THEN normalise_quotient(2 * p, n, e - 1)
    ELSE [p |-> p, n |-> n, exp |-> e]

\* the next k bits of the binary expansion of r/n (r < n), and the remainder left
RECURSIVE quotient_bits(_, _, _, _)
quotient_bits(r, n, k, acc) ==
    IF k = 0 THEN [bits |-> acc, rem |-> r]
    ELSE IF 2 * r >= n THEN quotient_bits(2 * r - n, n, k - 1, Append(acc, 1))
    ELSE quotient_bits(2 * r, n, k - 1, Append(acc, 0))

\* bits + 1; carry is 1 when every bit was 1
RECURSIVE increment(_, _)
increment(bits, i) ==
    IF i = 0 THEN [bits |-> bits, carry |-> 1]
    ELSE IF bits[i] = 0 THEN [bits |-> [bits EXCEPT ![i] = 1], carry |-> 0]
    ELSE increment([bits EXCEPT ![i] = 0], i - 1)

\* round to nearest, ties to even: bits are the first 53 bits, guard the next one, sticky
\* whether anything is left after it
round_nearest_even(sign, exp, bits, guard, sticky) ==
    IF guard = 1 /\ (sticky \/ bits[SignificandBits] = 1)
    THEN LET up == increment(bits, SignificandBits)
         IN  IF up.carry = 1
             THEN [sign |-> sign, exp |-> exp + 1, bits |-> <<1>> \o zeros(SignificandBits - 1)]
             ELSE [sign |-> sign, exp |-> exp, bits |-> up.bits]
    ELSE [sign |-> sign, exp |-> exp, bits |-> bits]

\* int / int (true division) of p >= 0 by n > 0: the float nearest to p/n
int_truediv(p, n) ==
    IF p = 0 THEN float_zero
    ELSE LET s == normalise_quotient(p, n, 0)
             q == quotient_bits(s.p - s.n, s.n, SignificandBits, <<>>)
         IN  round_nearest_even(0, s.exp, <<1>> \o SubSeq(q.bits, 1, SignificandBits - 1),
                                q.bits[SignificandBits], q.rem # 0)

\* x > y for floats that are not negative
float_gt(x, y) ==
    IF x.bits = <<>> THEN FALSE
    ELSE IF y.bits = <<>> THEN TRUE
    ELSE IF x.exp # y.exp THEN x.exp > y.exp
    ELSE \E i \in 1..SignificandBits :
            /\ x.bits[i] > y.bits[i]
            /\ \A j \in 1..(i - 1) : x.bits[j] = y.bits[j]

\* big - small on bit sequences of one length, from the last bit up
RECURSIVE subtract_bits(_, _, _, _, _)
subtract_bits(big, small, i, borrow, acc) ==
    IF i = 0 THEN acc
    ELSE IF big[i] - small[i] - borrow < 0
    THEN subtract_bits(big, small, i - 1, 1, <<big[i] - small[i] - borrow + 2>> \o acc)
    ELSE subtract_bits(big, small, i - 1, 0, <<big[i] - small[i] - borrow>> \o acc)

RECURSIVE leading_zeros(_)
leading_zeros(bits) ==
    IF bits = <<>> \/ bits[1] = 1 THEN 0 ELSE 1 + leading_zeros(Tail(bits))

\* x - y for floats that are not negative: the float nearest to the difference
float_sub(x, y) ==
    IF y.bits = <<>> THEN x
    ELSE IF x.bits = <<>> THEN [y EXCEPT !.sign = 1]
    ELSE IF x = y THEN float_zero
    ELSE LET sign == IF float_gt(y, x) THEN 1 ELSE 0
             big == IF sign = 1 THEN y ELSE x
             small == IF sign = 1 THEN x ELSE y
             shift == big.exp - small.exp
             wide == SignificandBits + shift
             diff == subtract_bits(big.bits \o zeros(shift), zeros(shift) \o small.bits, wide, 0, <<>>)
             z == leading_zeros(diff)
             digits == SubSeq(diff, z + 1, wide)
         IN  IF Len(digits) <= SignificandBits
             THEN [sign |-> sign, exp |-> big.exp - z,
                   bits |-> digits \o zeros(SignificandBits - Len(digits))]
             ELSE round_nearest_even(sign, big.exp - z, SubSeq(digits, 1, SignificandBits),
                                     digits[SignificandBits + 1],
                                     \E i \in (SignificandBits + 2)..Len(digits) : digits[i] = 1)

\* abs(x)
float_abs(x) == [x EXCEPT !.sign = 0]

\* the literal 0.05: the float nearest to 5/100
float_0_05 == int_truediv(5, 100)

-----------------------------------------------------------------------------
(* eval/generalization.py *)

\* getattr(getattr(r, attr), "passed", False)
layer_passed(r, attr) ==
    CASE attr = "syntax" -> r.syntax.passed
      [] attr = "operators" -> r.operators.passed
      [] attr = "fields" -> r.fields.passed

\* sum(1 for r in results if ...)
count_passed(results, attr) ==
    Cardinality({i \in 1..Len(results) : layer_passed(results[i], attr)})

\* _pass_rate taking an empty list of results to pass entirely
_pass_rate_of_nothing_is_one(results, attr) ==
    IF results = <<>> THEN int_truediv(1, 1)
    ELSE int_truediv(count_passed(results, attr), Len(results))

\* generalization.py:6-9
_pass_rate(results, attr) ==
    IF results = <<>> THEN float_zero
    ELSE int_truediv(count_passed(results, attr), Len(results))

\* GeneralizationResult(...), generalization.py:12-40
eval_generalization(train, held_out) ==
    LET train_syntax == _pass_rate(train, "syntax")
        held_syntax == _pass_rate(held_out, "syntax")
        train_ops == _pass_rate(train, "operators")
        held_ops == _pass_rate(held_out, "operators")
        train_fields == _pass_rate(train, "fields")
        held_fields == _pass_rate(held_out, "fields")
        gaps == [syntax |-> float_sub(train_syntax, held_syntax),
                 operators |-> float_sub(train_ops, held_ops),
                 fields |-> float_sub(train_fields, held_fields)]
        flagged == \E layer \in {"syntax", "operators", "fields"} :
                       float_gt(float_abs(gaps[layer]), float_0_05)
    IN  [train_syntax_pass_rate |-> train_syntax, held_out_syntax_pass_rate |-> held_syntax,
         train_operator_pass_rate |-> train_ops, held_out_operator_pass_rate |-> held_ops,
         train_field_pass_rate |-> train_fields, held_out_field_pass_rate |-> held_fields,
         gaps |-> gaps, flagged |-> flagged]

-----------------------------------------------------------------------------
(* eval/harness.py *)

\* TrainingExample, schema.py: the schema's collection and field names, the allowed operators
TrainingExample(collection, names, allowed) ==
    [schema_def |-> [collection |-> collection, fields |-> names], allowed_ops |-> allowed]

EvalResult(ex, pred, syn, opr, fld, passed_all) ==
    [example |-> ex, prediction |-> pred, syntax |-> syn, operators |-> opr, fields |-> fld,
     passed_all |-> passed_all]

\* _eval_one running the operator and field validators whenever the prediction parses to
\* an object, whatever the syntax result
_eval_one_running_all(ex, pred) ==
    LET syn == eval_syntax(pred)
        loaded == json_loads(pred)
        run == loaded.ok /\ is_dict(loaded.value)
        opr == IF run
               THEN eval_operators(loaded.value, all_operators(ex.allowed_ops))
               ELSE OperatorResult
        fld == IF run THEN eval_fields(loaded.value, ex.schema_def.fields) ELSE FieldResult
    IN  EvalResult(ex, pred, syn, opr, fld, syn.passed /\ opr.passed /\ fld.passed)

\* harness.py:20-46; what _eval_one returns when it returns
\* _eval_one whose layers that did not run count as passed
_eval_one_defaults_passed(ex, pred) ==
    LET syn == eval_syntax(pred)
        parsed == json_loads(pred).value
        opr == IF syn.passed
               THEN eval_operators(parsed, all_operators(ex.allowed_ops))
               ELSE [OperatorResult EXCEPT !.passed = TRUE]
        fld == IF syn.passed
               THEN eval_fields(parsed, ex.schema_def.fields)
               ELSE [FieldResult EXCEPT !.passed = TRUE]
    IN  EvalResult(ex, pred, syn, opr, fld, syn.passed /\ opr.passed /\ fld.passed)

\* _eval_one giving the operator layer the body the field layer scans
_eval_one_operators_on_body(ex, pred) ==
    LET syn == eval_syntax(pred)
        parsed == json_loads(pred).value
        opr == IF syn.passed
               THEN eval_operators(scan_body(parsed), all_operators(ex.allowed_ops))
               ELSE OperatorResult
        fld == IF syn.passed THEN eval_fields(parsed, ex.schema_def.fields) ELSE FieldResult
    IN  EvalResult(ex, pred, syn, opr, fld, syn.passed /\ opr.passed /\ fld.passed)

_eval_one(ex, pred) ==
    LET syn == eval_syntax(pred)
        parsed == json_loads(pred).value
        opr == IF syn.passed
               THEN eval_operators(parsed, all_operators(ex.allowed_ops))
               ELSE OperatorResult
        fld == IF syn.passed THEN eval_fields(parsed, ex.schema_def.fields) ELSE FieldResult
    IN  EvalResult(ex, pred, syn, opr, fld, syn.passed /\ opr.passed /\ fld.passed)

\* the calls of json.loads _eval_one makes: the one of eval_syntax (harness.py:22, syntax.py:14)
\* and, when eval_syntax returned and syntax passed, its own (harness.py:28-29)
_eval_one_loads(ex, pred) ==
    IF eval_syntax_raises(pred) = "None" /\ eval_syntax(pred).passed
    THEN 2
    ELSE 1

\* what _eval_one raises ("None" when it returns): eval_syntax is called outside any try
_eval_one_raises(ex, pred) == eval_syntax_raises(pred)

\* harness.py:54-57
MismatchError == "ValueError: Mismatch: {len(examples)} examples vs {len(predictions)} predictions"

\* EvalReport(results=..., total=...), schema.py: a rate is the fraction <<passes, total>>,
\* the default 0.0 is <<0, 1>>, generalization None is JNull
EvalReport(results, total) ==
    [results |-> results, total |-> total, syntax_pass_rate |-> <<0, 1>>,
     operator_pass_rate |-> <<0, 1>>, field_pass_rate |-> <<0, 1>>,
     overall_pass_rate |-> <<0, 1>>, generalization |-> JNull]

\* harness.py:72: if held_out_schemas: a set that is given and not empty
truthy(held_out) == held_out # JNull /\ held_out.names # {}

\* the syntax errors of the pairs 1..i, in order
RECURSIVE errors_so_far(_, _, _)
errors_so_far(exs, preds, i) ==
    IF i = 0 THEN <<>>
    ELSE errors_so_far(exs, preds, i - 1) \o _eval_one(exs[i], preds[i]).syntax.errors

\* eval_all with one errors list shared by every SyntaxResult: a result carries the errors
\* of the pairs evaluated before it
eval_all_sharing_errors(exs, preds) ==
    LET n == IF Len(exs) < Len(preds) THEN Len(exs) ELSE Len(preds)
    IN  [i \in 1..n |->
            [_eval_one(exs[i], preds[i]) EXCEPT !.syntax.errors = errors_so_far(exs, preds, i)]]

\* harness.py:59: [_eval_one(ex, pred) for ex, pred in zip(examples, predictions)]
eval_all(exs, preds) ==
    LET n == IF Len(exs) < Len(preds) THEN Len(exs) ELSE Len(preds)
    IN  [i \in 1..n |-> _eval_one(exs[i], preds[i])]

\* run_eval_raises without the length check: zip stops at the shorter list
run_eval_raises_truncating(exs, preds) ==
    LET n == IF Len(exs) < Len(preds) THEN Len(exs) ELSE Len(preds)
        raising == {i \in 1..n : _eval_one_raises(exs[i], preds[i]) # "None"}
    IN  IF raising = {} THEN "None"
        ELSE _eval_one_raises(exs[CHOOSE i \in raising : \A j \in raising : i <= j],
                              preds[CHOOSE i \in raising : \A j \in raising : i <= j])

\* what run_eval raises ("None" when it returns): the mismatch, or what the first
\* _eval_one that raises lets through
run_eval_raises(exs, preds) ==
    IF Len(exs) # Len(preds) THEN MismatchError
    ELSE LET raising == {i \in 1..Len(exs) : _eval_one_raises(exs[i], preds[i]) # "None"}
         IN  IF raising = {} THEN "None"
             ELSE _eval_one_raises(exs[CHOOSE i \in raising : \A j \in raising : i <= j],
                                   preds[CHOOSE i \in raising : \A j \in raising : i <= j])

\* generalization_of analysing also a batch without held-out results
generalization_of_any_supplied(results, held_out) ==
    IF truthy(held_out)
    THEN eval_generalization(
             SelectSeq(results, LAMBDA r : r.example.schema_def.collection \notin held_out.names),
             SelectSeq(results, LAMBDA r : r.example.schema_def.collection \in held_out.names))
    ELSE JNull

\* harness.py:70-80
generalization_of(results, held_out) ==
    IF truthy(held_out)
    THEN LET train == SelectSeq(results,
                 LAMBDA r : r.example.schema_def.collection \notin held_out.names)
             held == SelectSeq(results,
                 LAMBDA r : r.example.schema_def.collection \in held_out.names)
         IN  IF held # <<>> THEN eval_generalization(train, held) ELSE JNull
    ELSE JNull

\* report_of taking the operator, field and overall rates over the results that passed syntax
report_of_rates_of_parsed(results, held_out) ==
    LET total == Len(results)
        count(attr) == count_passed(results, attr)
        parsed == IF count("syntax") = 0 THEN total ELSE count("syntax")
        overall == Cardinality({i \in 1..total : results[i].passed_all})
    IN  IF total = 0 THEN EvalReport(results, 0)
        ELSE [results |-> results, total |-> total,
              syntax_pass_rate |-> <<count("syntax"), total>>,
              operator_pass_rate |-> <<count("operators"), parsed>>,
              field_pass_rate |-> <<count("fields"), parsed>>,
              overall_pass_rate |-> <<overall, parsed>>,
              generalization |-> generalization_of(results, held_out)]

\* harness.py:60-90: the report made of the results
report_of(results, held_out) ==
    LET total == Len(results)
        count(attr) == count_passed(results, attr)
        overall == Cardinality({i \in 1..total : results[i].passed_all})
    IN  IF total = 0 THEN EvalReport(results, 0)
        ELSE [results |-> results, total |-> total,
              syntax_pass_rate |-> <<count("syntax"), total>>,
              operator_pass_rate |-> <<count("operators"), total>>,
              field_pass_rate |-> <<count("fields"), total>>,
              overall_pass_rate |-> <<overall, total>>,
              generalization |-> generalization_of(results, held_out)]

\* harness.py:59-90; what run_eval returns when it returns: the results are computed once
\* (line 59) and the report is made of them
run_eval(exs, preds, held_out) ==
    CHOOSE rep \in {report_of(results, held_out) : results \in {eval_all(exs, preds)}} : TRUE

-----------------------------------------------------------------------------
(* The arguments the calls are made with *)

Obj1(k, v) == JObj(<< <<k, v>> >>)
Obj2(k1, v1, k2, v2) == JObj(<< <<k1, v1>>, <<k2, v2>> >>)

\* a value is a leaf wrapped in up to MaxDepth dicts and lists
Wrappers(W) == UNION {[1..d -> W] : d \in 0..MaxDepth}

\* values for the operator layer: operator, unsafe, literal-wrapper and plain keys, nested
OperatorLeaves == {JNum(1), JStr(ref_amount), JObj(<<>>), JArr(<<>>)}

OperatorWrappers ==
    {"$match", "$where", "$date", "status", "$match,$sum", "status,$sum", "[]", "[$out,]"}

OperatorWrap(w, v) ==
    CASE w = "$match" -> Obj1(op_match, v)
      [] w = "$where" -> Obj1(op_where, v)
      [] w = "$date" -> Obj1(op_date, v)
      [] w = "status" -> Obj1(s_status, v)
      [] w = "$match,$sum" -> Obj2(op_match, v, op_sum, JNum(1))
      [] w = "status,$sum" -> Obj2(s_status, v, op_sum, JNum(1))
      [] w = "[]" -> JArr(<<v>>)
      [] w = "[$out,]" -> JArr(<<Obj1(op_out, JStr(s_oops)), v>>)

RECURSIVE OperatorValue(_, _)
OperatorValue(wrappers, leaf) ==
    IF wrappers = <<>> THEN leaf
    ELSE OperatorWrap(Head(wrappers), OperatorValue(Tail(wrappers), leaf))

AllowedOpsValues ==
    { AllowedOps(<<>>, <<>>),
      AllowedOps(<<op_match>>, <<>>),
      AllowedOps(<<op_match>>, <<op_sum, op_match>>),
      AllowedOps(<<op_match, op_where>>, <<>>),
      AllowedOps(<<op_match, op_out>>, <<op_sum, op_where, op_date>>) }

\* values for the field layer: alias operators, other operators, plain and dotted keys,
\* field references and system variables, nested
FieldLeaves ==
    {JNum(1), JStr(s_active), JStr(ref_amount), JStr(ref_addr_city), JStr(ref_id), JStr(var_ROOT)}

FieldWrappers ==
    {"$group", "$bucket", "$bucketAuto", "$sum", "total", "address.city", "_id,total",
     "[]", "[,status]"}

FieldWrap(w, v) ==
    CASE w = "$group" -> Obj1(op_group, v)
      [] w = "$bucket" -> Obj1(op_bucket, v)
      [] w = "$bucketAuto" -> Obj1(op_bucketAuto, v)
      [] w = "$sum" -> Obj1(op_sum, v)
      [] w = "total" -> Obj1(s_total, v)
      [] w = "address.city" -> Obj1(s_address_city, v)
      [] w = "_id,total" -> Obj2(s_id, JStr(ref_dept), s_total, v)
      [] w = "[]" -> JArr(<<v>>)
      [] w = "[,status]" -> JArr(<<v, JStr(s_status)>>)

RECURSIVE FieldValue(_, _)
FieldValue(wrappers, leaf) ==
    IF wrappers = <<>> THEN leaf
    ELSE FieldWrap(Head(wrappers), FieldValue(Tail(wrappers), leaf))

\* pipelines that introduce the output total and use it: a $group stage followed by a $sort
\* on total, a $bucket and a $bucketAuto stage whose output document defines total
GroupStage ==
    Obj1(op_group, Obj2(s_id, JStr(ref_dept), s_total, Obj1(op_sum, JStr(ref_amount))))

BucketStage(op) ==
    Obj1(op, Obj2(s_groupBy, JStr(ref_amount), s_output, Obj1(s_total, Obj1(op_sum, JNum(1)))))

AliasPipelines ==
    { JArr(<<GroupStage, Obj1(op_sort, Obj1(s_total, JNum(1)))>>),
      JArr(<<Obj1(op_sort, Obj1(s_total, JNum(1))), GroupStage>>),
      JArr(<<BucketStage(op_bucket)>>),
      JArr(<<BucketStage(op_bucketAuto)>>) }

\* the queries eval_fields is given: a dict as a whole document with a type, as the filter
\* of a find query with a projection, as the filter of a document typed aggregate that has
\* a sort; a list as the pipeline of an aggregate query and of a document typed find that
\* has a filter too
FieldQueries(v) ==
    IF is_dict(v)
    THEN { JObj(<< <<s_type, JStr(s_find)>> >> \o v.items),
           JObj(<< <<s_type, JStr(s_find)>>, <<s_filter, v>>,
                   <<s_projection, Obj1(s_amount, JNum(1))>> >>),
           JObj(<< <<s_sort, Obj1(s_dept, JNum(1))>>, <<s_filter, v>>,
                   <<s_type, JStr(s_aggregate)>> >>) }
    ELSE IF is_list(v)
    THEN { Obj2(s_type, JStr(s_aggregate), s_pipeline, v),
           JObj(<< <<s_type, JStr(s_find)>>, <<s_filter, Obj1(s_dept, JStr(ref_amount))>>,
                   <<s_pipeline, v>> >>) }
    ELSE {}

Schemas ==
    { <<>>,
      <<s_status, s_amount, s_addr, s_total>>,
      <<s_id, s_type, s_dept, s_address>> }

\* prediction texts for the syntax layer
StageValues ==
    { JStr(s_oops),
      JArr(<<>>),
      JObj(<<>>),
      Obj1(s_status, JNum(1)),
      Obj1(op_match, JObj(<<>>)),
      Obj2(op_match, JObj(<<>>), op_sort, JObj(<<>>)),
      Obj2(op_match, JObj(<<>>), s_status, JNum(1)),
      Obj2(s_status, JNum(1), op_group, JObj(<<>>)) }

Pipelines == UNION {[1..n -> StageValues] : n \in 0..MaxStages}

Absent == <<>>
Present(k, v) == << <<k, v>> >>

TypeItems ==
    {Absent} \cup {Present(s_type, v) :
        v \in {JStr(s_aggregate), JStr(s_find), JStr(s_update), JNum(1), JNull, JArr(<<>>)}}

PipelineItems ==
    {Absent} \cup {Present(s_pipeline, v) : v \in {JStr(s_oops), JObj(<<>>)}}

FilterItems ==
    {Absent} \cup {Present(s_filter, v) :
        v \in {JObj(<<>>), Obj1(s_status, JStr(s_active)), JArr(<<>>), JStr(s_oops)}}

OtherTopLevelValues ==
    {JArr(<<JNum(1), JNum(2)>>), JStr(s_find), JNum(1), JNull, JBool(TRUE)}

but_last(s) == SubSeq(s, 1, Len(s) - 1)

\* the text of a value, the text cut short, the text with a token too many
Texts(v) ==
    {json_dumps(v), but_last(json_dumps(v)), json_dumps(v) \o <<Tok("}")>>}

OtherTexts ==
    { <<>>,
      <<Tok("junk"), Tok("junk")>>,
      <<Tok("{"), TStr(s_type), Tok(":"), TStr(s_find), Tok(","), Tok("}")>>,
      <<Tok("{"), TStr(s_type), Tok(":"), TStr(s_update), Tok(","),
        TStr(s_type), Tok(":"), TStr(s_find), Tok(","),
        TStr(s_filter), Tok(":"), Tok("{"), Tok("}"), Tok("}")>> }

\* the variables of the harness and of the generalization analysis while a layer is checked
IdleHarness ==
    /\ example = JNull /\ prediction = <<>> /\ eval_one_result = JNull
    /\ examples = <<>> /\ predictions = <<>> /\ held_out_schemas = JNull /\ report = JNull

IdleGeneralization ==
    /\ train_results = <<>> /\ held_out_results = <<>> /\ generalization = JNull

\* no call of json.loads made yet, no pair evaluated, no run made
IdleTrace == loads_calls = 0 /\ evaluated = <<>> /\ reports = <<>>

\* the variables of the three layers while the harness is checked
IdleLayers ==
    /\ raw_output = <<>> /\ syntax = SyntaxResult
    /\ obj = JNull /\ query_arg = JNull
    /\ allowed_ops = AllowedOps(<<>>, <<>>) /\ ops = {} /\ operators = OperatorResult
    /\ refs = {} /\ schema = <<>> /\ fields = FieldResult

RECURSIVE Repeat(_, _)
Repeat(tok, n) == IF n = 0 THEN <<>> ELSE <<tok>> \o Repeat(tok, n - 1)

\* n arrays nested in each other
DeepText(n) == Repeat(Tok("["), n) \o Repeat(Tok("]"), n)

\* texts json.loads does not take: nested as deep as the recursion limit and one deeper,
\* an integer literal too long to convert, alone and inside a filter
RaisingTexts ==
    { DeepText(RecursionLimit),
      DeepText(RecursionLimit + 1),
      <<Tok("bigint")>>,
      <<Tok("{"), TStr(s_type), Tok(":"), TStr(s_find), Tok(","),
        TStr(s_filter), Tok(":"), Tok("{"), TStr(s_status), Tok(":"), Tok("bigint"), Tok("}"),
        Tok("}")>> }

\* the examples of the harness: a schema with the fields the queries use and the operators
\* they use allowed, a schema with one field and no operator allowed, an empty schema with
\* $where allowed
ExampleValues ==
    { TrainingExample("orders", <<s_status, s_amount, s_dept, s_total>>,
                      AllowedOps(<<op_match, op_group>>, <<op_sum>>)),
      TrainingExample("users", <<s_status>>, AllowedOps(<<>>, <<>>)),
      TrainingExample("events", <<>>, AllowedOps(<<op_match, op_where>>, <<>>)) }

find_status == Obj2(s_type, JStr(s_find), s_filter, Obj1(s_status, JStr(s_active)))
find_where == Obj2(s_type, JStr(s_find), s_filter, Obj1(op_where, JStr(s_oops)))
find_oops == Obj2(s_type, JStr(s_find), s_filter, Obj2(s_total, JNum(1), s_oops, JNum(1)))
aggregate_group ==
    Obj2(s_type, JStr(s_aggregate), s_pipeline,
         JArr(<<Obj1(op_match, Obj1(s_status, JNum(1))),
                Obj1(op_group, Obj2(s_id, JStr(ref_dept), s_total, Obj1(op_sum, JStr(ref_amount))))>>))

\* the queries with an empty body
empty_aggregate == Obj2(s_type, JStr(s_aggregate), s_pipeline, JArr(<<>>))
empty_find == Obj2(s_type, JStr(s_find), s_filter, JObj(<<>>))

\* find queries with an operator and a key no schema has outside the filter: in the
\* projection, an unsafe operator; in the sort, an operator "orders" allows
find_projecting ==
    JObj(<< <<s_type, JStr(s_find)>>, <<s_filter, Obj1(s_status, JStr(s_active))>>,
            <<s_projection, Obj1(s_oops, Obj1(op_where, JNum(1)))>> >>)
find_sorting ==
    JObj(<< <<s_sort, Obj1(s_oops, Obj1(op_sum, JNum(1)))>>, <<s_type, JStr(s_find)>>,
            <<s_filter, Obj1(s_status, JStr(s_active))>> >>)

\* queries for _eval_one: passing and failing each layer, and documents whose type, body
\* and stages are of every JSON kind
HarnessQueries ==
    { find_status, find_where, find_oops, aggregate_group,
      Obj2(s_type, JStr(s_aggregate), s_pipeline, JArr(<<Obj1(op_match, JObj(<<>>)), JStr(s_oops)>>)),
      Obj2(s_type, JStr(s_aggregate), s_pipeline, JArr(<<JNull, JNum(1)>>)),
      Obj2(s_type, JStr(s_aggregate), s_pipeline, JArr(<<JBool(TRUE)>>)),
      Obj2(s_type, JStr(s_aggregate), s_pipeline, JNull),
      Obj2(s_type, JStr(s_aggregate), s_pipeline, JNum(1)),
      Obj2(s_type, JStr(s_update), s_filter, Obj2(op_where, JNum(1), s_oops, JNum(1))),
      Obj2(s_type, JStr(s_find), s_filter, JArr(<<Obj1(op_where, JNum(1))>>)),
      Obj2(s_type, JStr(s_find), s_filter, JNull),
      Obj2(s_type, JStr(s_find), s_filter, JBool(FALSE)),
      Obj2(s_type, JBool(TRUE), s_filter, JObj(<<>>)),
      Obj2(s_type, JObj(<<>>), s_filter, Obj1(op_where, JNum(1))),
      JObj(<< <<s_type, JStr(s_find)>>, <<s_filter, JObj(<<>>)>>,
              <<s_projection, Obj1(s_oops, JNum(1))>> >>),
      JArr(<<Obj1(op_where, JNum(1))>>),
      empty_aggregate, empty_find, find_projecting, find_sorting }

\* the examples _eval_one is given: those of the harness, and one with an empty schema and
\* no operator allowed
EvalOneExamples ==
    ExampleValues \cup {TrainingExample("logs", <<>>, AllowedOps(<<>>, <<>>))}

\* the predictions _eval_one is given
PredictionTexts ==
    UNION {Texts(q) : q \in HarnessQueries}
    \cup UNION {Texts(JObj(t \o p \o f)) : t \in TypeItems, p \in PipelineItems, f \in FilterItems}
    \cup UNION {Texts(v) : v \in OtherTopLevelValues}
    \cup OtherTexts \cup RaisingTexts

\* the predictions of a batch: passing every layer for "orders", failing the operator
\* layer, failing the field layer, no JSON, too long an integer
BatchPredictions ==
    { json_dumps(aggregate_group), json_dumps(find_where), json_dumps(find_oops),
      <<Tok("junk")>>, <<Tok("bigint")>> }

\* held_out_schemas: None is JNull, a set is its names
HeldOut(names) == [tag |-> "set", names |-> names]

HeldOutValues ==
    {JNull, HeldOut({}), HeldOut({"users"}), HeldOut({"users", "events"}), HeldOut({"archive"}),
     HeldOut({"orders", "users"})}

Batches(S) == UNION {[1..n -> S] : n \in 0..MaxBatch}

\* an EvalResult of which only the three passed flags matter
ResultWith(sp, op, fp) ==
    EvalResult(JNull, <<>>, [SyntaxResult EXCEPT !.passed = sp],
               [OperatorResult EXCEPT !.passed = op], [FieldResult EXCEPT !.passed = fp],
               sp /\ op /\ fp)

\* n results of which the first p pass every layer, the others none ("all"), or pass
\* syntax alone ("syntax"), or fail the field layer alone ("fields")
ResultsWith(n, p, shape) ==
    [i \in 1..n |->
        CASE shape = "all" -> ResultWith(i <= p, i <= p, i <= p)
          [] shape = "syntax" -> ResultWith(TRUE, i <= p, i <= p)
          [] shape = "fields" -> ResultWith(TRUE, TRUE, i <= p)]

ResultLists(max) ==
    {ResultsWith(n, p, shape) : n \in 0..max, p \in 0..max, shape \in {"all", "syntax", "fields"}}

-----------------------------------------------------------------------------
(* The calls *)

\* eval_syntax(raw_output)
InitSyntax ==
    /\ \/ \E t \in TypeItems, p \in PipelineItems, f \in FilterItems :
            raw_output \in Texts(JObj(t \o p \o f))
       \/ \E t \in TypeItems, p \in Pipelines, f \in {Absent, Present(s_filter, JObj(<<>>))} :
            raw_output \in Texts(JObj(t \o Present(s_pipeline, JArr(p)) \o f))
       \/ \E t \in TypeItems, s \in StageValues :
            raw_output \in Texts(JObj(Present(s_pipeline, JArr(<<s>>)) \o t))
       \/ \E v \in OtherTopLevelValues : raw_output \in Texts(v)
       \/ raw_output \in OtherTexts \cup RaisingTexts
    /\ pc = "call"
    /\ syntax = SyntaxResult
    /\ obj = JNull /\ query_arg = JNull /\ allowed_ops = AllowedOps(<<>>, <<>>) /\ ops = {} /\ operators = OperatorResult
    /\ refs = {} /\ schema = <<>> /\ fields = FieldResult
    /\ raised = "None" /\ IdleHarness /\ IdleGeneralization /\ IdleTrace

EvalSyntax ==
    /\ pc = "call"
    /\ raised' = eval_syntax_raises(raw_output)
    /\ IF raised' = "None"
       THEN syntax' = eval_syntax(raw_output) /\ pc' = "eval_syntax"
       ELSE syntax' = syntax /\ pc' = "raised"
    /\ loads_calls' = loads_calls + 1    \* syntax.py:14
    /\ UNCHANGED <<raw_output, obj, query_arg, allowed_ops, ops, operators, refs, schema, fields,
                   harness_vars, generalization_vars, evaluated, reports>>

NextSyntax == EvalSyntax

SpecSyntax == InitSyntax /\ [][NextSyntax]_vars

\* extract_operators(obj) and eval_operators(obj, allowed_ops.all_operators)
InitOperators ==
    /\ \E w \in Wrappers(OperatorWrappers), leaf \in OperatorLeaves :
        obj = OperatorValue(w, leaf)
    /\ pc = "call"
    /\ query_arg = JNull
    /\ allowed_ops = AllowedOps(<<>>, <<>>) /\ ops = {} /\ operators = OperatorResult
    /\ raw_output = <<>> /\ syntax = SyntaxResult
    /\ refs = {} /\ schema = <<>> /\ fields = FieldResult
    /\ raised = "None" /\ IdleHarness /\ IdleGeneralization /\ IdleTrace

ExtractOperators ==
    /\ pc = "call"
    /\ ops' = extract_operators(obj)
    /\ pc' = "extract_operators"
    /\ UNCHANGED <<raw_output, syntax, obj, query_arg, allowed_ops, operators, refs, schema, fields, raised,
                 harness_vars, generalization_vars, trace_vars>>

EvalOperators ==
    /\ pc = "call"
    /\ is_dict(obj)    \* query: dict[str, Any]
    /\ query_arg' = obj
    /\ \E a \in AllowedOpsValues :
        /\ allowed_ops' = a
        /\ operators' = eval_operators(query_arg', all_operators(a))
    /\ pc' = "eval_operators"
    /\ UNCHANGED <<raw_output, syntax, obj, ops, refs, schema, fields, raised,
                 harness_vars, generalization_vars, trace_vars>>

NextOperators == ExtractOperators \/ EvalOperators

SpecOperators == InitOperators /\ [][NextOperators]_vars

\* extract_field_refs(obj) and eval_fields(obj, schema)
InitFields ==
    /\ \/ \E w \in Wrappers(FieldWrappers), leaf \in FieldLeaves :
            obj = FieldValue(w, leaf)
       \/ obj \in AliasPipelines
    /\ pc = "call"
    /\ query_arg = JNull
    /\ refs = {} /\ schema = <<>> /\ fields = FieldResult
    /\ raw_output = <<>> /\ syntax = SyntaxResult
    /\ allowed_ops = AllowedOps(<<>>, <<>>) /\ ops = {} /\ operators = OperatorResult
    /\ raised = "None" /\ IdleHarness /\ IdleGeneralization /\ IdleTrace

ExtractFieldRefs ==
    /\ pc = "call"
    /\ refs' = extract_field_refs(obj, FALSE)
    /\ pc' = "extract_field_refs"
    /\ UNCHANGED <<raw_output, syntax, obj, query_arg, allowed_ops, ops, operators, schema, fields, raised,
                 harness_vars, generalization_vars, trace_vars>>

EvalFields ==
    /\ pc = "call"
    /\ \E q \in FieldQueries(obj), s \in Schemas :
        /\ query_arg' = q
        /\ schema' = s
        /\ fields' = eval_fields(q, s)
    /\ pc' = "eval_fields"
    /\ UNCHANGED <<raw_output, syntax, obj, allowed_ops, ops, operators, refs, raised,
                 harness_vars, generalization_vars, trace_vars>>

NextFields == ExtractFieldRefs \/ EvalFields

SpecFields == InitFields /\ [][NextFields]_vars

\* eval_operators and eval_fields on the same documents: the values of the operator layer
\* and of the field layer, less deep, and the alias pipelines
ShallowWrappers(W) == UNION {[1..d -> W] : d \in 0..MaxLayersDepth}

InitLayers ==
    /\ \/ \E w \in ShallowWrappers(OperatorWrappers), leaf \in OperatorLeaves :
            obj = OperatorValue(w, leaf)
       \/ \E w \in ShallowWrappers(FieldWrappers), leaf \in FieldLeaves :
            obj = FieldValue(w, leaf)
       \/ obj \in AliasPipelines
    /\ pc = "call"
    /\ query_arg = JNull
    /\ allowed_ops = AllowedOps(<<>>, <<>>) /\ ops = {} /\ operators = OperatorResult
    /\ raw_output = <<>> /\ syntax = SyntaxResult
    /\ refs = {} /\ schema = <<>> /\ fields = FieldResult
    /\ raised = "None" /\ IdleHarness /\ IdleGeneralization /\ IdleTrace

NextLayers == EvalOperators \/ EvalFields

SpecLayers == InitLayers /\ [][NextLayers]_vars

-----------------------------------------------------------------------------
(* The calls of the harness *)

\* _eval_one(example, prediction)
InitEvalOne ==
    /\ example \in EvalOneExamples
    /\ prediction \in PredictionTexts
    /\ pc = "call" /\ raised = "None"
    /\ eval_one_result = JNull
    /\ examples = <<>> /\ predictions = <<>> /\ held_out_schemas = JNull /\ report = JNull
    /\ IdleLayers /\ IdleGeneralization /\ IdleTrace

EvalOne ==
    /\ pc = "call"
    /\ raised' = _eval_one_raises(example, prediction)
    /\ IF raised' = "None"
       THEN eval_one_result' = _eval_one(example, prediction) /\ pc' = "_eval_one"
       ELSE eval_one_result' = eval_one_result /\ pc' = "raised"
    /\ loads_calls' = loads_calls + _eval_one_loads(example, prediction)
    /\ UNCHANGED <<layer_vars, example, prediction, examples, predictions, held_out_schemas,
                   report, generalization_vars, evaluated, reports>>

NextEvalOne == EvalOne

SpecEvalOne == InitEvalOne /\ [][NextEvalOne]_vars

\* run_eval(examples, predictions, held_out_schemas)
InitRunEval ==
    /\ examples \in Batches(ExampleValues)
    /\ predictions \in Batches(BatchPredictions)
    /\ held_out_schemas \in HeldOutValues
    /\ pc = "call" /\ raised = "None"
    /\ report = JNull
    /\ example = JNull /\ prediction = <<>> /\ eval_one_result = JNull
    /\ IdleLayers /\ IdleGeneralization /\ IdleTrace

RunEval ==
    /\ pc = "call"
    /\ raised' = run_eval_raises(examples, predictions)
    /\ IF raised' = "None"
       THEN report' = run_eval(examples, predictions, held_out_schemas) /\ pc' = "run_eval"
       ELSE report' = report /\ pc' = "raised"
    /\ UNCHANGED <<layer_vars, example, prediction, eval_one_result, examples, predictions,
                   held_out_schemas, generalization_vars, trace_vars>>

NextRunEval == RunEval

SpecRunEval == InitRunEval /\ [][NextRunEval]_vars

\* eval_generalization(train_results, held_out_results)
InitGeneralization ==
    /\ train_results \in ResultLists(MaxTrain)
    /\ held_out_results \in ResultLists(MaxHeldOut)
    /\ generalization = JNull
    /\ pc = "call" /\ raised = "None"
    /\ IdleLayers /\ IdleHarness /\ IdleTrace

EvalGeneralization ==
    /\ pc = "call"
    /\ generalization' = eval_generalization(train_results, held_out_results)
    /\ pc' = "eval_generalization"
    /\ UNCHANGED <<raised, layer_vars, harness_vars, train_results, held_out_results, trace_vars>>

NextGeneralization == EvalGeneralization

SpecGeneralization == InitGeneralization /\ [][NextGeneralization]_vars

\* the pairs of a batch evaluated one at a time in any order, and run_eval run on the
\* batch again and again
OrderExamples == {ex \in ExampleValues : ex.schema_def.collection \in {"orders", "users"}}

OrderPredictions ==
    {json_dumps(aggregate_group), json_dumps(find_oops), <<Tok("junk")>>, <<Tok("bigint")>>}

\* what a call gave: the exception it raised, or "None" and the value it returned
Raised(e) == [raised |-> e, value |-> JNull]
Returns(v) == [raised |-> "None", value |-> v]

pair_outcome(ex, pred) ==
    IF _eval_one_raises(ex, pred) # "None"
    THEN Raised(_eval_one_raises(ex, pred))
    ELSE Returns(_eval_one(ex, pred))

run_outcome(exs, preds, held_out) ==
    IF run_eval_raises(exs, preds) # "None"
    THEN Raised(run_eval_raises(exs, preds))
    ELSE Returns(run_eval(exs, preds, held_out))

InitBatchOrder ==
    /\ \E n \in 0..MaxBatch :
        /\ examples \in [1..n -> OrderExamples]
        /\ predictions \in [1..n -> OrderPredictions]
    /\ held_out_schemas \in {JNull, HeldOut({"users"})}
    /\ pc = "call" /\ raised = "None"
    /\ report = JNull
    /\ example = JNull /\ prediction = <<>> /\ eval_one_result = JNull
    /\ IdleLayers /\ IdleGeneralization /\ IdleTrace

\* _eval_one(examples[i], predictions[i]), for a pair not evaluated yet
EvalPair ==
    /\ \E i \in (1..Len(examples)) \ DOMAIN evaluated :
        evaluated' = evaluated @@ (i :> pair_outcome(examples[i], predictions[i]))
    /\ UNCHANGED <<pc, raised, layer_vars, harness_vars, generalization_vars, loads_calls, reports>>

\* run_eval(examples, predictions, held_out_schemas), once more
RunEvalAgain ==
    /\ Len(reports) < MaxRuns
    /\ reports' = Append(reports, run_outcome(examples, predictions, held_out_schemas))
    /\ pc' = IF run_eval_raises(examples, predictions) = "None" THEN "run_eval" ELSE "raised"
    /\ UNCHANGED <<raised, layer_vars, harness_vars, generalization_vars, loads_calls, evaluated>>

NextBatchOrder == EvalPair \/ RunEvalAgain

SpecBatchOrder == InitBatchOrder /\ [][NextBatchOrder]_vars

-----------------------------------------------------------------------------
(* Properties of the syntax layer, checked under SpecSyntax *)

Returned(f) == pc = f

\* what the text parses to
IsJson == json_loads(raw_output).ok
Parsed == json_loads(raw_output).value

IsDollarKey(k) == Len(k) > 0 /\ k[1] = "$"
DollarKeyCount(d) == Cardinality({i \in 1..Len(d.items) : IsDollarKey(d.items[i][1])})
GoodStage(s) == is_dict(s) /\ DollarKeyCount(s) = 1
TypeIs(s) == is_dict(Parsed) /\ has_key(Parsed, s_type) /\ get(Parsed, s_type) = JStr(s)
Body(k) == get(Parsed, k)
BadStages == {i \in 0..(Len(Body(s_pipeline).elems) - 1) : ~GoodStage(Body(s_pipeline).elems[i + 1])}
Least(S) == CHOOSE i \in S : \A j \in S : i <= j

\* the checks in their order; check k is asked only of a text that passes the checks before it
CheckFails(k) ==
    CASE k = 1 -> ~IsJson
      [] k = 2 -> ~is_dict(Parsed)
      [] k = 3 -> ~has_key(Parsed, s_type)
      [] k = 4 -> ~(TypeIs(s_aggregate) \/ TypeIs(s_find))
      [] k = 5 -> IF TypeIs(s_aggregate) THEN ~has_key(Parsed, s_pipeline)
                  ELSE ~has_key(Parsed, s_filter)
      [] k = 6 -> IF TypeIs(s_aggregate) THEN ~is_list(Body(s_pipeline)) \/ BadStages # {}
                  ELSE ~is_dict(Body(s_filter))

\* the messages check k may give
CheckMessages(k) ==
    CASE k = 1 -> {"Invalid JSON"}
      [] k = 2 -> {"Top-level value must be an object"}
      [] k = 3 -> {"Missing 'type' field"}
      [] k = 4 -> {"Invalid type '{parsed['type']}'; expected 'aggregate' or 'find'"}
      [] k = 5 -> {"Aggregate query missing 'pipeline'", "Find query missing 'filter'"}
      [] k = 6 -> {"'pipeline' must be a list", "'filter' must be an object",
                   "Pipeline stage {i} is not an object",
                   "Pipeline stage {i} must have exactly one $-prefixed key, got {len(dollar_keys)}"}

\* check k fails and no check before it does
FirstFailure(k) == (\A j \in 1..(k - 1) : ~CheckFails(j)) /\ CheckFails(k)

StageMessages ==
    {"Pipeline stage {i} is not an object",
     "Pipeline stage {i} must have exactly one $-prefixed key, got {len(dollar_keys)}"}

\* C1: eval_syntax returns at most one message: none when passed, and when not passed
\* the message of the first check, in the order JSON / object / type present / type
\* value / body present / body shape, that fails; a missing body is reported with the
\* key's name and a stage violation with the least index of an offending stage.
C1_FirstFailingCheckOnly ==
    Returned("eval_syntax") =>
        /\ Len(syntax.errors) <= 1
        /\ Len(syntax.errors) = (IF syntax.passed THEN 0 ELSE 1)
        /\ syntax.passed <=> \A k \in 1..6 : ~FirstFailure(k)
        /\ \A k \in 1..6 : FirstFailure(k) => syntax.errors[1].fmt \in CheckMessages(k)
        /\ FirstFailure(5) =>
              syntax.errors[1].fmt = (IF TypeIs(s_aggregate)
                                      THEN "Aggregate query missing 'pipeline'"
                                      ELSE "Find query missing 'filter'")
        /\ (~syntax.passed /\ syntax.errors[1].fmt \in StageMessages) =>
              /\ FirstFailure(6) /\ TypeIs(s_aggregate) /\ is_list(Body(s_pipeline))
              /\ syntax.errors[1].args[1] = JNum(Least(BadStages))
        /\ (FirstFailure(6) /\ TypeIs(s_aggregate) /\ is_list(Body(s_pipeline))) =>
              syntax.errors[1].fmt \in StageMessages

\* a pipeline of two offending stages was reported by its stage 0 alone
C1_Witness ==
    /\ Returned("eval_syntax")
    /\ TypeIs(s_aggregate) /\ has_key(Parsed, s_pipeline) /\ is_list(Body(s_pipeline))
    /\ BadStages = {0, 1}
    /\ Len(syntax.errors) = 1
    /\ syntax.errors[1].args[1] = JNum(0)

\* the documents eval_syntax is to accept
WellFormedQuery ==
    /\ IsJson
    /\ is_dict(Parsed)
    /\ \/ /\ TypeIs(s_aggregate)
          /\ has_key(Parsed, s_pipeline)
          /\ is_list(Body(s_pipeline))
          /\ \A s \in Range(Body(s_pipeline).elems) : GoodStage(s)
       \/ /\ TypeIs(s_find)
          /\ has_key(Parsed, s_filter)
          /\ is_dict(Body(s_filter))

\* C2: eval_syntax passes exactly the texts that parse to an object of type "aggregate"
\* whose pipeline is a list of objects with exactly one $-key each, or of type "find"
\* whose filter is an object.
C2_PassedIffWellFormed ==
    Returned("eval_syntax") => (syntax.passed <=> WellFormedQuery)

\* a stage with one $-key and a plain key beside it passed
C2_Witness ==
    /\ Returned("eval_syntax")
    /\ syntax.passed
    /\ TypeIs(s_aggregate)
    /\ \E s \in Range(Body(s_pipeline).elems) : Len(s.items) = 2

\* C3: the flags of a SyntaxResult form a chain, passed at its end, and are all false
\* for a text that is not JSON.
C3_FlagChain ==
    Returned("eval_syntax") =>
        /\ syntax.passed =>
              syntax.valid_json /\ syntax.has_type /\ syntax.has_body /\ syntax.pipeline_well_formed
        /\ syntax.pipeline_well_formed => syntax.has_body
        /\ syntax.has_body => syntax.has_type
        /\ syntax.has_type => syntax.valid_json
        /\ ~IsJson =>
              /\ ~syntax.valid_json /\ ~syntax.has_type /\ ~syntax.has_body
              /\ ~syntax.pipeline_well_formed /\ ~syntax.passed

\* a find query passed with every flag set
C3_Witness ==
    /\ Returned("eval_syntax")
    /\ TypeIs(s_find)
    /\ syntax.passed /\ syntax.pipeline_well_formed /\ syntax.has_body

-----------------------------------------------------------------------------
(* Properties of the operator layer, checked under SpecOperators *)

RECURSIVE Descendants(_)

\* a value and the values nested in it at any depth
Descendants(v) ==
    {v} \cup
    (IF is_dict(v) THEN UNION {Descendants(v.items[i][2]) : i \in 1..Len(v.items)}
     ELSE IF is_list(v) THEN UNION {Descendants(v.elems[i]) : i \in 1..Len(v.elems)}
     ELSE {})

\* the keys of the dicts nested in a value at any depth
KeysAnywhere(v) ==
    UNION {Range(dict_keys(d)) : d \in {x \in Descendants(v) : is_dict(x)}}

LiteralWrappers ==
    { <<"$", "d", "a", "t", "e">>, <<"$", "o", "i", "d">>,
      <<"$", "n", "u", "m", "b", "e", "r", "L", "o", "n", "g">>,
      <<"$", "n", "u", "m", "b", "e", "r", "I", "n", "t">>,
      <<"$", "n", "u", "m", "b", "e", "r", "D", "o", "u", "b", "l", "e">>,
      <<"$", "n", "u", "m", "b", "e", "r", "D", "e", "c", "i", "m", "a", "l">>,
      <<"$", "b", "i", "n", "a", "r", "y">>,
      <<"$", "t", "i", "m", "e", "s", "t", "a", "m", "p">>,
      <<"$", "r", "e", "g", "e", "x">>,
      <<"$", "u", "n", "d", "e", "f", "i", "n", "e", "d">>,
      <<"$", "m", "i", "n", "K", "e", "y">>, <<"$", "m", "a", "x", "K", "e", "y">>,
      <<"$", "d", "b", "P", "o", "i", "n", "t", "e", "r">>,
      <<"$", "s", "y", "m", "b", "o", "l">>, <<"$", "c", "o", "d", "e">> }

Blocklist ==
    { <<"$", "w", "h", "e", "r", "e">>, <<"$", "f", "u", "n", "c", "t", "i", "o", "n">>,
      <<"$", "a", "c", "c", "u", "m", "u", "l", "a", "t", "o", "r">>,
      <<"$", "m", "e", "r", "g", "e">>, <<"$", "o", "u", "t">>,
      <<"$", "c", "u", "r", "r", "e", "n", "t", "O", "p">>,
      <<"$", "c", "o", "l", "l", "S", "t", "a", "t", "s">>,
      <<"$", "i", "n", "d", "e", "x", "S", "t", "a", "t", "s">>,
      <<"$", "p", "l", "a", "n", "C", "a", "c", "h", "e", "S", "t", "a", "t", "s">> }

\* the $-keys of a value, at any depth, that are no literal wrapper
OperatorKeysAnywhere(v) ==
    {k \in KeysAnywhere(v) : IsDollarKey(k) /\ k \notin LiteralWrappers}

\* C4: extract_operators(d) is exactly the set of the $-keys, other than the fifteen
\* literal-wrapper keys, of the objects at any depth of d, those under a literal-wrapper
\* key or a plain key included.
C4_AllOperatorKeys ==
    /\ _EJSON_KEYS = LiteralWrappers
    /\ Returned("extract_operators") => ops = OperatorKeysAnywhere(obj)

\* $where under a $date key was collected, $date was not
C4_Witness ==
    /\ Returned("extract_operators")
    /\ is_dict(obj) /\ dict_keys(obj) = <<op_date>>
    /\ op_where \in ops
    /\ op_date \notin ops

\* C5: eval_operators returns the operators of the whole document as used_operators,
\* those outside the allow-list (stage and expression operators together) as
\* violations, and passed exactly when violations and unsafe_operators are both empty.
C5_ViolationsAndPassed ==
    Returned("eval_operators") =>
        LET permitted == Range(allowed_ops.stage_operators) \cup Range(allowed_ops.expression_operators)
        IN  /\ operators.used_operators = OperatorKeysAnywhere(query_arg)
            /\ operators.violations = {k \in OperatorKeysAnywhere(query_arg) : k \notin permitted}
            /\ operators.passed <=>
                  (operators.violations = {} /\ operators.unsafe_operators = {})

\* every operator used was allowed and passed was false all the same
C5_Witness ==
    /\ Returned("eval_operators")
    /\ operators.used_operators # {}
    /\ operators.violations = {}
    /\ operators.unsafe_operators # {}
    /\ ~operators.passed

\* C6: unsafe_operators is the blocklist's part of the operators used, whatever the
\* allow-list, and a non-empty unsafe_operators makes passed false.
C6_BlocklistOverridesAllowList ==
    /\ UNSAFE_OPERATORS = Blocklist
    /\ Returned("eval_operators") =>
          /\ operators.unsafe_operators = {k \in OperatorKeysAnywhere(query_arg) : k \in Blocklist}
          /\ operators.unsafe_operators # {} => ~operators.passed

\* $where, nested and explicitly allowed, was listed as unsafe and failed the query
C6_Witness ==
    /\ Returned("eval_operators")
    /\ op_where \in Range(all_operators(allowed_ops))
    /\ op_where \notin Range(dict_keys(query_arg))
    /\ op_where \in operators.unsafe_operators
    /\ ~operators.passed

-----------------------------------------------------------------------------
(* Properties of the field layer, checked under SpecFields *)

\* the text of s before its first "."
Root(s) ==
    SubSeq(s, 1, CHOOSE n \in 0..Len(s) :
                     /\ \A i \in 1..n : s[i] # "."
                     /\ n = Len(s) \/ s[n + 1] = ".")

Roots(S) == {Root(s) : s \in S}

\* the str values nested in a value at any depth
StringsAnywhere(v) == {x.str : x \in {d \in Descendants(v) : is_str(d)}}

IsSystemVariable(s) == Len(s) >= 2 /\ s[1] = "$" /\ s[2] = "$"

\* the paths of the "$path" strings of a value, "$$" strings left out
RefPaths(v) ==
    {SubSeq(s, 2, Len(s)) : s \in {x \in StringsAnywhere(v) : IsDollarKey(x) /\ ~IsSystemVariable(x)}}

\* the keys without "$" of the dicts nested in a value at any depth
PlainKeysAnywhere(v) == {k \in KeysAnywhere(v) : ~IsDollarKey(k)}

\* the keys without "$" of a dict itself
PlainKeys(d) == {k \in Range(dict_keys(d)) : ~IsDollarKey(k)}

\* the values of a dict's items
Values(d) == {d.items[i][2] : i \in 1..Len(d.items)}

\* <<k, V>> for every item of every dict of v, at any depth, whose value is a dict
DictItemsAnywhere(v) ==
    UNION {{d.items[i] : i \in {j \in 1..Len(d.items) : is_dict(d.items[j][2])}} :
              d \in {x \in Descendants(v) : is_dict(x)}}

\* C7: every reference is reduced to its root: each "$path" string at any depth gives
\* the text between "$" and the first "."; each plain key of the value itself, and of
\* a dict that is the value of a key other than an alias operator, gives the text
\* before its first "."; nothing else (number, boolean, null, other string) gives a
\* reference, and no reference holds a ".".
C7_RootSegments ==
    Returned("extract_field_refs") =>
        /\ Roots(RefPaths(obj)) \subseteq refs
        /\ is_dict(obj) => Roots(PlainKeys(obj)) \subseteq refs
        /\ \A it \in DictItemsAnywhere(obj) :
              it[1] \notin _ALIAS_OPERATORS => Roots(PlainKeys(it[2])) \subseteq refs
        /\ refs \subseteq Roots(RefPaths(obj)) \cup Roots(PlainKeysAnywhere(obj))
        /\ \A r \in refs : "." \notin Range(r)

\* the key address.city and the value $addr.city gave address and addr
C7_Witness ==
    /\ Returned("extract_field_refs")
    /\ obj = Obj1(s_address_city, JStr(ref_addr_city))
    /\ refs = {s_address, s_addr}

\* C8, as claimed: extract_field_refs never returns _id, and a "$$" string gives no
\* reference.
C8_NeverId ==
    Returned("extract_field_refs") =>
        /\ s_id \notin refs
        /\ \A s \in {x \in StringsAnywhere(obj) : IsSystemVariable(x)} :
              \A name \in {Root(SubSeq(s, 2, Len(s))), Root(SubSeq(s, 3, Len(s)))} :
                  name \in refs => name \in Roots(RefPaths(obj)) \cup Roots(PlainKeysAnywhere(obj))

\* C8, amended: a "$$" string gives no reference; _id is returned by
\* extract_field_refs like any other name and is removed by eval_fields, whose
\* referenced_fields and hallucinated_fields never hold it.
C8_SystemVariablesAndImplicitId ==
    /\ Returned("extract_field_refs") =>
          \A s \in {x \in StringsAnywhere(obj) : IsSystemVariable(x)} :
              \A name \in {Root(SubSeq(s, 2, Len(s))), Root(SubSeq(s, 3, Len(s)))} :
                  name \in refs => name \in Roots(RefPaths(obj)) \cup Roots(PlainKeysAnywhere(obj))
    /\ Returned("eval_fields") =>
          /\ s_id \notin fields.referenced_fields
          /\ s_id \notin fields.hallucinated_fields

\* a find query whose filter has the key _id and a $$ROOT value was evaluated: neither is
\* reported
C8_Witness ==
    /\ Returned("eval_fields")
    /\ has_key(query_arg, s_filter)
    /\ s_id \in PlainKeys(get(query_arg, s_filter))
    /\ var_ROOT \in StringsAnywhere(query_arg)
    /\ s_id \notin fields.referenced_fields
    /\ fields.referenced_fields # {}

\* what can give a reference under the value of an alias operator, its own keys apart
UnderAliases(d) ==
    Roots(RefPaths(d)) \cup UNION {Roots(PlainKeysAnywhere(v)) : v \in Values(d)}

GroupExample == GroupStage

\* C9: alias suppression is one level deep.  In {G: D}, G an alias operator and D an
\* object, a plain key of D is not added on its own account while the "$path" strings
\* under it are, so the $group example gives exactly {dept, amount}; and wherever an
\* alias operator's object has a plain key whose value is an object, the plain keys of
\* that object are references.
C9_AliasOneLevel ==
    Returned("extract_field_refs") =>
        /\ (/\ is_dict(obj) /\ Len(obj.items) = 1
            /\ obj.items[1][1] \in _ALIAS_OPERATORS /\ is_dict(obj.items[1][2])) =>
              /\ refs \subseteq UnderAliases(obj.items[1][2])
              /\ Roots(RefPaths(obj)) \subseteq refs
        /\ obj = GroupExample => refs = {s_dept, s_amount}
        /\ \A it \in DictItemsAnywhere(obj) :
              it[1] \in _ALIAS_OPERATORS =>
                  \A i \in 1..Len(it[2].items) :
                      (~IsDollarKey(it[2].items[i][1]) /\ is_dict(it[2].items[i][2])) =>
                          Roots(PlainKeys(it[2].items[i][2])) \subseteq refs

\* {"$group": {"_id": "$dept", "total": {"address.city": 1}}} gave dept and address,
\* and neither _id nor total
C9_Witness ==
    /\ Returned("extract_field_refs")
    /\ obj = Obj1(op_group, Obj2(s_id, JStr(ref_dept), s_total, Obj1(s_address_city, JNum(1))))
    /\ refs = {s_dept, s_address}

\* {G: {op: D}}: G an alias operator, op another operator, D an object
OperatorUnderAlias ==
    /\ is_dict(obj) /\ Len(obj.items) = 1
    /\ obj.items[1][1] \in _ALIAS_OPERATORS
    /\ is_dict(obj.items[1][2]) /\ Len(obj.items[1][2].items) = 1
    /\ IsDollarKey(obj.items[1][2].items[1][1])
    /\ obj.items[1][2].items[1][1] \notin _ALIAS_OPERATORS
    /\ is_dict(obj.items[1][2].items[1][2])

\* C10, as claimed: an operator key that is no alias operator hands the alias context
\* on, so under an alias operator the plain keys of its object are not references.
C10_ContextPropagated ==
    (Returned("extract_field_refs") /\ OperatorUnderAlias) =>
        refs \subseteq UnderAliases(obj.items[1][2].items[1][2])

\* C10, amended: the value of an operator key is scanned in alias context exactly when
\* the key is $group, $bucket or $bucketAuto, whatever the context the key is met in:
\* the plain keys of the object of any other operator are references, also under an
\* alias operator, and those of the object of an alias operator are not.
C10_ContextFromKeyAlone ==
    Returned("extract_field_refs") =>
        /\ \A it \in DictItemsAnywhere(obj) :
              (IsDollarKey(it[1]) /\ it[1] \notin _ALIAS_OPERATORS) =>
                  Roots(PlainKeys(it[2])) \subseteq refs
        /\ OperatorUnderAlias => Roots(PlainKeys(obj.items[1][2].items[1][2])) \subseteq refs
        /\ (/\ is_dict(obj) /\ Len(obj.items) = 1 /\ IsDollarKey(obj.items[1][1])
            /\ is_dict(obj.items[1][2]) /\ Len(obj.items[1][2].items) = 1
            /\ obj.items[1][2].items[1][1] \in _ALIAS_OPERATORS
            /\ is_dict(obj.items[1][2].items[1][2])) =>
              refs \subseteq UnderAliases(obj.items[1][2].items[1][2])

\* {"$group": {"$sum": {"total": 1}}} gave total
C10_Witness ==
    /\ Returned("extract_field_refs")
    /\ obj = Obj1(op_group, Obj1(op_sum, Obj1(s_total, JNum(1))))
    /\ refs = {s_total}

-----------------------------------------------------------------------------
(* Properties of eval_fields, checked under SpecFields *)

\* a find query with a filter and a projection document was evaluated
ProjectionQuery ==
    /\ Returned("eval_fields")
    /\ has_key(query_arg, s_type) /\ get(query_arg, s_type) = JStr(s_find)
    /\ ~has_key(query_arg, s_pipeline)
    /\ has_key(query_arg, s_filter)
    /\ has_key(query_arg, s_projection) /\ is_dict(get(query_arg, s_projection))

\* C11, as claimed: the keys of the projection of a find query are field references:
\* the root of each is in referenced_fields, and one that is no schema field is in
\* hallucinated_fields and makes passed false.
C11_ProjectionKeysCounted ==
    ProjectionQuery =>
        \A k \in Roots(PlainKeys(get(query_arg, s_projection))) \ {s_id, s_type} :
            /\ k \in fields.referenced_fields
            /\ k \notin field_names(schema) =>
                  (k \in fields.hallucinated_fields /\ ~fields.passed)

\* {"type": "find", "filter": ..., "projection": {"amount": 1}} against a schema without
\* amount passed, and amount is no referenced field
C11_ProjectionIgnored ==
    /\ ProjectionQuery
    /\ s_amount \in PlainKeys(get(query_arg, s_projection))
    /\ s_amount \notin field_names(schema)
    /\ s_amount \notin fields.referenced_fields
    /\ fields.hallucinated_fields = {}
    /\ fields.passed

\* every name a value can give as a reference: roots of its "$" strings and of its plain keys
Candidates(v) == Roots(RefPaths(v)) \cup Roots(PlainKeysAnywhere(v))

\* the references of one body as eval_fields reports them
ReportedRefs(body) == (extract_field_refs(body, FALSE) \ {s_id}) \ {s_type}

ScannedBody ==
    IF has_key(query_arg, s_pipeline) THEN get(query_arg, s_pipeline)
    ELSE IF has_key(query_arg, s_filter) THEN get(query_arg, s_filter)
    ELSE query_arg

\* C13: referenced_fields is extract_field_refs(body) without _id and type,
\* hallucinated_fields is referenced_fields without the schema's field names, passed is
\* true exactly when hallucinated_fields is empty; _id and type are in neither set,
\* whether or not the schema declares them.
C13_ReferencedHallucinatedPassed ==
    Returned("eval_fields") =>
        /\ \A f \in Candidates(ScannedBody) \cup {s_id, s_type} :
              f \in fields.referenced_fields <=>
                  (f \in extract_field_refs(ScannedBody, FALSE) /\ f # s_id /\ f # s_type)
        /\ fields.referenced_fields \subseteq Candidates(ScannedBody)
        /\ fields.hallucinated_fields =
              {f \in fields.referenced_fields : \A i \in 1..Len(schema) : schema[i] # f}
        /\ fields.passed <=> fields.hallucinated_fields = {}
        /\ {s_id, s_type} \cap (fields.referenced_fields \cup fields.hallucinated_fields) = {}

\* a whole document with the key type and a name the schema lacks was evaluated against a
\* schema that declares type: type is not reported, the other name is hallucinated
C13_Witness ==
    /\ Returned("eval_fields")
    /\ s_type \in extract_field_refs(ScannedBody, FALSE)
    /\ \E i \in 1..Len(schema) : schema[i] = s_type
    /\ s_type \notin fields.referenced_fields
    /\ fields.hallucinated_fields # {}
    /\ ~fields.passed

\* the names a schema declares
Declared == {schema[i] : i \in 1..Len(schema)}

\* C14: coverage is the number of referenced fields the schema declares over the number
\* of fields the schema declares, 0 for a schema without fields; it lies in [0, 1], and
\* hallucinated references do not count in it.
C14_Coverage ==
    Returned("eval_fields") =>
        /\ Declared = {} => fields.coverage = <<0, 1>>
        /\ Declared # {} =>
              fields.coverage = <<Cardinality({f \in Declared : f \in fields.referenced_fields}),
                                  Cardinality(Declared)>>
        /\ 0 <= fields.coverage[1] /\ fields.coverage[1] <= fields.coverage[2]
        /\ fields.coverage[2] > 0
        /\ fields.coverage[1] =
              Cardinality(fields.referenced_fields) - Cardinality(fields.hallucinated_fields)

\* a query with hallucinated fields covered some but not all of the schema's fields
C14_Witness ==
    /\ Returned("eval_fields")
    /\ fields.hallucinated_fields # {}
    /\ fields.coverage[1] > 0
    /\ fields.coverage[1] < fields.coverage[2]
    /\ fields.coverage[2] = Cardinality(Declared)

-----------------------------------------------------------------------------
(* Properties of _eval_one, checked under SpecEvalOne *)

\* what the prediction parses to
PredictionParsed == json_loads(prediction).value

\* C15: when the syntax result has passed = false the operator and field results are the
\* defaults (empty sets, coverage 0, passed = false) and passed_all is false; when syntax
\* passes both validators ran on the parsed prediction, against the example's stage and
\* expression operators together and against the example's schema, and passed_all is
\* true exactly when both passed.
C15_FailFast ==
    Returned("_eval_one") =>
        LET r == eval_one_result
            allowed == Range(example.allowed_ops.stage_operators)
                           \cup Range(example.allowed_ops.expression_operators)
        IN  /\ r.example = example /\ r.prediction = prediction
            /\ r.syntax = eval_syntax(prediction)
            /\ ~r.syntax.passed =>
                  /\ r.operators = [used_operators |-> {}, violations |-> {},
                                    unsafe_operators |-> {}, passed |-> FALSE]
                  /\ r.fields = [referenced_fields |-> {}, hallucinated_fields |-> {},
                                 coverage |-> <<0, 1>>, passed |-> FALSE]
                  /\ ~r.passed_all
            /\ r.syntax.passed =>
                  /\ r.operators.used_operators = OperatorKeysAnywhere(PredictionParsed)
                  /\ r.operators.violations = r.operators.used_operators \ allowed
                  /\ r.operators.unsafe_operators = r.operators.used_operators \cap Blocklist
                  /\ r.operators.passed <=>
                        (r.operators.violations = {} /\ r.operators.unsafe_operators = {})
                  /\ r.fields = eval_fields(PredictionParsed, example.schema_def.fields)
                  /\ r.passed_all <=> (r.operators.passed /\ r.fields.passed)

\* a prediction that parses to an object with a $where key and a key the schema lacks, but
\* is typed "update", was evaluated: both later results are the defaults
C15_Witness ==
    /\ Returned("_eval_one")
    /\ json_loads(prediction).ok /\ is_dict(PredictionParsed)
    /\ op_where \in OperatorKeysAnywhere(PredictionParsed)
    /\ s_oops \in PlainKeysAnywhere(PredictionParsed)
    /\ ~eval_one_result.syntax.passed
    /\ eval_one_result.operators.unsafe_operators = {}
    /\ eval_one_result.fields.hallucinated_fields = {}
    /\ ~eval_one_result.passed_all

-----------------------------------------------------------------------------
(* Properties of run_eval, checked under SpecRunEval *)

Called == pc # "call"

\* C16: run_eval with lists of different lengths raises the mismatch error before any
\* pair is evaluated and returns no report; with lists of one length it never raises it.
C16_MismatchFails ==
    /\ (Called /\ Len(examples) # Len(predictions)) =>
          /\ pc = "raised"
          /\ raised = MismatchError
          /\ report = JNull
    /\ (Called /\ Len(examples) = Len(predictions)) => raised # MismatchError

\* two examples and one prediction, whose evaluation would raise, were given: the
\* mismatch was raised and there is no report
C16_Witness ==
    /\ Called
    /\ Len(examples) = 2 /\ Len(predictions) = 1
    /\ _eval_one_raises(examples[1], predictions[1]) # "None"
    /\ raised = MismatchError
    /\ report = JNull

\* the number of results of the report for which P holds
HowMany(P(_)) == Cardinality({i \in 1..Len(report.results) : P(report.results[i])})

SyntaxPassed(r) == r.syntax.passed
OperatorsPassed(r) == r.operators.passed
FieldsPassed(r) == r.fields.passed
PassedAll(r) == r.passed_all

\* C17: for n pairs run_eval returns total = n and n results, result i being that of
\* example i and prediction i; each rate is the number of results whose layer passed (for
\* the overall rate: with passed_all) over n, passed_all being true exactly when the
\* three layers passed; for n = 0 the rates are 0, total is 0 and generalization is
\* absent, whatever held_out_schemas is.
C17_TotalsAndRates ==
    Returned("run_eval") =>
        LET n == Len(examples)
        IN  /\ report.total = n
            /\ Len(report.results) = n
            /\ \A i \in 1..n :
                  /\ report.results[i].example = examples[i]
                  /\ report.results[i].prediction = predictions[i]
                  /\ report.results[i].syntax = eval_syntax(predictions[i])
                  /\ report.results[i].passed_all <=>
                        (/\ report.results[i].syntax.passed
                         /\ report.results[i].operators.passed
                         /\ report.results[i].fields.passed)
            /\ n > 0 =>
                  /\ report.syntax_pass_rate = <<HowMany(SyntaxPassed), n>>
                  /\ report.operator_pass_rate = <<HowMany(OperatorsPassed), n>>
                  /\ report.field_pass_rate = <<HowMany(FieldsPassed), n>>
                  /\ report.overall_pass_rate = <<HowMany(PassedAll), n>>
            /\ n = 0 =>
                  /\ report.syntax_pass_rate = <<0, 1>>
                  /\ report.operator_pass_rate = <<0, 1>>
                  /\ report.field_pass_rate = <<0, 1>>
                  /\ report.overall_pass_rate = <<0, 1>>
                  /\ report.generalization = JNull

\* a batch of two, of which the first passes syntax alone and the second no layer
C17_Witness ==
    /\ Returned("run_eval")
    /\ report.total = 2
    /\ report.results[1].syntax.passed /\ ~report.results[1].operators.passed
    /\ ~report.results[2].syntax.passed
    /\ report.syntax_pass_rate = <<1, 2>>
    /\ report.operator_pass_rate = <<0, 2>>
    /\ report.overall_pass_rate = <<0, 2>>

\* C18: the report has a GeneralizationResult exactly when held-out names are supplied
\* and the collection of some result's schema is one of them.
C18_GeneralizationPresence ==
    Returned("run_eval") =>
        (report.generalization # JNull <=>
            (/\ held_out_schemas # JNull
             /\ \E i \in 1..Len(report.results) :
                   report.results[i].example.schema_def.collection \in held_out_schemas.names))

\* held-out names were supplied and one of two results is of a held-out collection
C18_Witness ==
    /\ Returned("run_eval")
    /\ report.total = 2
    /\ held_out_schemas # JNull
    /\ report.results[1].example.schema_def.collection \notin held_out_schemas.names
    /\ report.results[2].example.schema_def.collection \in held_out_schemas.names
    /\ report.generalization # JNull

-----------------------------------------------------------------------------
(* Properties of eval_generalization, checked under SpecGeneralization *)

\* passes and size of a part for a layer; an empty part counts as 0 of 1
Fraction(results, attr) ==
    IF results = <<>> THEN <<0, 1>>
    ELSE <<Cardinality({i \in 1..Len(results) : layer_passed(results[i], attr)}), Len(results)>>

\* seen rate minus held-out rate of a layer, as the exact fraction <<numerator, denominator>>
ExactGap(attr) ==
    LET t == Fraction(train_results, attr)
        h == Fraction(held_out_results, attr)
    IN  <<t[1] * h[2] - h[1] * t[2], t[2] * h[2]>>

\* |gap| > 5/100 in exact arithmetic
AboveFivePoints(gap) ==
    (IF gap[1] < 0 THEN 0 - gap[1] ELSE gap[1]) * 100 > 5 * gap[2]

ExactlyFivePoints(gap) ==
    (IF gap[1] < 0 THEN 0 - gap[1] ELSE gap[1]) * 100 = 5 * gap[2]

Layers == {"syntax", "operators", "fields"}

TrainRate(attr) ==
    CASE attr = "syntax" -> generalization.train_syntax_pass_rate
      [] attr = "operators" -> generalization.train_operator_pass_rate
      [] attr = "fields" -> generalization.train_field_pass_rate

HeldOutRate(attr) ==
    CASE attr = "syntax" -> generalization.held_out_syntax_pass_rate
      [] attr = "operators" -> generalization.held_out_operator_pass_rate
      [] attr = "fields" -> generalization.held_out_field_pass_rate

\* C19, as claimed: each part's rate of a layer is passes over size (0 for an empty part),
\* the layer's gap is the seen rate minus the held-out rate with its sign, and flagged is
\* true exactly when the gap of some layer is above 5 points in absolute value: a gap of
\* exactly 5 points is not flagged.
C19_FlaggedIffGapAboveFivePoints ==
    Returned("eval_generalization") =>
        /\ \A attr \in Layers :
              /\ TrainRate(attr) = int_truediv(Fraction(train_results, attr)[1],
                                               Fraction(train_results, attr)[2])
              /\ HeldOutRate(attr) = int_truediv(Fraction(held_out_results, attr)[1],
                                                 Fraction(held_out_results, attr)[2])
              /\ generalization.gaps[attr].bits = <<>> <=> ExactGap(attr)[1] = 0
              /\ generalization.gaps[attr].sign = 1 <=> ExactGap(attr)[1] < 0
        /\ generalization.flagged <=> \E attr \in Layers : AboveFivePoints(ExactGap(attr))

\* 3 of 4 seen results and 4 of 5 held-out results pass: every gap is 5 points or
\* none, and the result is flagged
C19_FivePointGapFlagged ==
    /\ Returned("eval_generalization")
    /\ Len(train_results) = 4 /\ Len(held_out_results) = 5
    /\ \A attr \in Layers : ~AboveFivePoints(ExactGap(attr))
    /\ \E attr \in Layers : ExactlyFivePoints(ExactGap(attr))
    /\ generalization.flagged

\* C20, as claimed: _eval_one returns an EvalResult for every example and prediction, and
\* every anomaly shows as passed = false with a message in syntax.errors or with a
\* violation, an unsafe operator or a hallucinated field.
C20_NeverRaises ==
    (pc # "call" /\ example # JNull) =>
        /\ Returned("_eval_one")
        /\ raised = "None"
        /\ ~eval_one_result.syntax.passed => eval_one_result.syntax.errors # <<>>
        /\ ~eval_one_result.passed_all =>
              \/ eval_one_result.syntax.errors # <<>>
              \/ eval_one_result.operators.violations # {}
              \/ eval_one_result.operators.unsafe_operators # {}
              \/ eval_one_result.fields.hallucinated_fields # {}

\* a prediction nested deeper than the recursion limit was given: _eval_one raised
\* RecursionError and returned no result
C20_RecursionErrorRaised ==
    /\ example # JNull
    /\ pc = "raised"
    /\ raised = "RecursionError"
    /\ prediction = DeepText(RecursionLimit + 1)
    /\ eval_one_result = JNull

-----------------------------------------------------------------------------
(* Properties of the evaluation of a batch, checked under SpecBatchOrder *)

\* pair i evaluated as the only pair of a batch, with no held-out schemas
Alone(i) ==
    LET run == run_outcome(<<examples[i]>>, <<predictions[i]>>, JNull)
    IN  IF run.raised # "None" THEN run ELSE Returns(run.value.results[1])

-----------------------------------------------------------------------------
(* Properties of the operator layer under reordering, checked under SpecOperators *)

\* s with its positions permuted by p and its i-th member replaced by c[i]
Permuted(s, p, c) == [i \in 1..Len(s) |-> c[p[i]]]

\* the ways of picking one member of R[i] for every i
Picks(R) == {c \in [DOMAIN R -> UNION {R[i] : i \in DOMAIN R}] : \A i \in DOMAIN R : c[i] \in R[i]}

\* the documents that differ from v only by the order of the keys inside objects and of the
\* elements inside arrays, at every depth
RECURSIVE Reorderings(_)
Reorderings(v) ==
    IF is_dict(v)
    THEN LET R == [i \in 1..Len(v.items) |-> Reorderings(v.items[i][2])]
         IN  {JObj(Permuted(v.items, p, [i \in DOMAIN R |-> <<v.items[i][1], c[i]>>])) :
                 p \in Permutations(1..Len(v.items)), c \in Picks(R)}
    ELSE IF is_list(v)
    THEN LET R == [i \in 1..Len(v.elems) |-> Reorderings(v.elems[i])]
         IN  {JArr(Permuted(v.elems, p, c)) : p \in Permutations(1..Len(v.elems)), c \in Picks(R)}
    ELSE {v}

\* C22: two documents that differ only by the order of keys inside objects and of elements
\* inside arrays give the same set of operators, and the same OperatorResult for the same
\* allow-list.
C22_OrderInvariant ==
    /\ Returned("extract_operators") =>
          \A w \in Reorderings(obj) : extract_operators(w) = ops
    /\ Returned("eval_operators") =>
          \A w \in Reorderings(query_arg) :
              eval_operators(w, all_operators(allowed_ops)) = operators

\* a dict of two keys, each bringing an operator the other does not, was scanned; it has a
\* reordering that is another document
C22_Witness ==
    /\ Returned("extract_operators")
    /\ is_dict(obj) /\ Len(obj.items) = 2
    /\ extract_operators(obj.items[1][2]) \ extract_operators(obj.items[2][2]) # {}
    /\ is_operator_key(obj.items[2][1])
    /\ (Reorderings(obj) \ {obj}) # {}
    /\ Cardinality(ops) >= 3

-----------------------------------------------------------------------------
(* The calls of json.loads made by _eval_one, checked under SpecEvalOne *)

\* C23: over the whole of one _eval_one, the syntax layer included, the prediction text is
\* parsed at most once.
C23_ParsedAtMostOnce ==
    pc \in {"_eval_one", "raised"} => loads_calls <= 1

\* a prediction that passes syntax was parsed twice: by eval_syntax and by _eval_one; one
\* that fails syntax or makes json.loads raise was parsed once, by eval_syntax
C23_ParsedTwiceOnSuccess ==
    /\ Returned("_eval_one")
    /\ eval_one_result.syntax.passed
    /\ loads_calls = 2

\* what does hold: the second parse is made only when syntax passed
C23_SecondParseOnlyOnSuccess ==
    /\ Returned("_eval_one") =>
          loads_calls = IF eval_one_result.syntax.passed THEN 2 ELSE 1
    /\ Returned("raised") => loads_calls = 1

-----------------------------------------------------------------------------
(* Output aliases, checked under SpecFields *)

\* the stages of the pipeline eval_fields scanned
ScannedStages == get(query_arg, s_pipeline).elems

\* {G: D}: G an alias operator, D an object
AliasStage(stage) ==
    /\ is_dict(stage) /\ Len(stage.items) = 1
    /\ stage.items[1][1] \in _ALIAS_OPERATORS
    /\ is_dict(stage.items[1][2])

\* the output names a stage introduces: the direct child keys of $group, the keys of the
\* output document of $bucket and $bucketAuto
OutputAliases(stage) ==
    LET D == stage.items[1][2]
    IN  IF stage.items[1][1] = op_group THEN PlainKeys(D)
        ELSE IF has_key(D, s_output) /\ is_dict(get(D, s_output))
        THEN PlainKeys(get(D, s_output))
        ELSE {}

\* the values an alias stage computes its outputs and its grouping from
ComputedFrom(stage) ==
    LET D == stage.items[1][2]
    IN  IF stage.items[1][1] = op_group THEN Values(D)
        ELSE UNION {IF D.items[i][1] = s_output /\ is_dict(D.items[i][2])
                    THEN Values(D.items[i][2])
                    ELSE {D.items[i][2]} : i \in 1..Len(D.items)}

\* name is used in the pipeline otherwise than as the output of stage i or as a key of a
\* later stage: in a "$name" string, as a key of an earlier stage, as a key inside a value
\* stage i computes from
UsedOtherwise(name, i) ==
    \/ name \in Roots(RefPaths(JArr(ScannedStages)))
    \/ \E j \in 1..(i - 1) : name \in Roots(PlainKeysAnywhere(ScannedStages[j]))
    \/ \E v \in ComputedFrom(ScannedStages[i]) : name \in Roots(PlainKeysAnywhere(v))

PipelineScanned ==
    /\ Returned("eval_fields")
    /\ has_key(query_arg, s_pipeline)
    /\ is_list(get(query_arg, s_pipeline))

\* C24: a name a $group, $bucket or $bucketAuto stage introduces as an output is not
\* reported as a referenced or hallucinated field on account of its definition or of a
\* later stage using it as a key.
C24_AliasNeverField ==
    PipelineScanned =>
        \A i \in 1..Len(ScannedStages) :
            AliasStage(ScannedStages[i]) =>
                \A name \in OutputAliases(ScannedStages[i]) :
                    Root(name) \in fields.referenced_fields \cup fields.hallucinated_fields
                        => UsedOtherwise(Root(name), i)

\* a $group stage introduced total and a later $sort stage used it as its key: total is
\* reported as a referenced field, and as hallucinated for a schema that does not have it
C24_AliasSortedOnIsReported ==
    /\ PipelineScanned
    /\ Len(ScannedStages) = 2
    /\ ScannedStages[1] = GroupExample
    /\ ScannedStages[2] = Obj1(op_sort, Obj1(s_total, JNum(1)))
    /\ s_total \notin field_names(schema)
    /\ s_total \in fields.referenced_fields
    /\ s_total \in fields.hallucinated_fields
    /\ ~fields.passed


\* a $bucket stage whose output document defines total was scanned: total is reported
C24_BucketOutputIsReported ==
    /\ PipelineScanned
    /\ ScannedStages = <<BucketStage(op_bucket)>>
    /\ fields.referenced_fields = {s_amount, s_total}

-----------------------------------------------------------------------------
(* Properties of the results of both layers, checked under SpecLayers *)

\* C25: the sets of a result are consistent with each other.  In an OperatorResult the
\* violations and the unsafe operators are among the used operators, every used operator
\* starts with "$" and none is a literal wrapper, so no literal wrapper is a violation,
\* whatever the allow-list; in a FieldResult the hallucinated fields are among the
\* referenced fields and none of them is a field of the schema.
C25_ConsistentSets ==
    /\ Returned("eval_operators") =>
          /\ operators.violations \subseteq operators.used_operators
          /\ operators.unsafe_operators \subseteq operators.used_operators
          /\ \A k \in operators.used_operators : IsDollarKey(k) /\ k \notin LiteralWrappers
          /\ operators.violations \cap LiteralWrappers = {}
    /\ Returned("eval_fields") =>
          /\ fields.hallucinated_fields \subseteq fields.referenced_fields
          /\ fields.hallucinated_fields \cap Range(schema) = {}

\* a document with the key $date and another operator was checked against an empty
\* allow-list: the other operator is a violation, $date is not
C25_Witness ==
    /\ Returned("eval_operators")
    /\ op_date \in KeysAnywhere(query_arg)
    /\ all_operators(allowed_ops) = <<>>
    /\ operators.violations # {}
    /\ op_date \notin operators.violations
    /\ operators.violations = operators.used_operators


\* a with the operators of b added
WithOperators(a, b) ==
    AllowedOps(a.stage_operators \o b.stage_operators,
               a.expression_operators \o b.expression_operators)

\* C28: validation is monotone in the metadata.  For the same document, operators added
\* to the allow-list leave used_operators and unsafe_operators as they are and can only
\* shrink the violations: a pass stays a pass, and a fail with an unsafe operator stays a
\* fail.  Fields added to the schema leave referenced_fields as it is and can only shrink
\* hallucinated_fields: a pass stays a pass.
C28_Monotone ==
    /\ Returned("eval_operators") =>
          \A more \in AllowedOpsValues :
              LET larger == eval_operators(query_arg,
                                all_operators(WithOperators(allowed_ops, more)))
              IN  /\ larger.violations \subseteq operators.violations
                  /\ larger.used_operators = operators.used_operators
                  /\ larger.unsafe_operators = operators.unsafe_operators
                  /\ operators.passed => larger.passed
                  /\ operators.unsafe_operators # {} => ~larger.passed
    /\ Returned("eval_fields") =>
          \A more \in Schemas :
              LET larger == eval_fields(query_arg, schema \o more)
              IN  /\ larger.hallucinated_fields \subseteq fields.hallucinated_fields
                  /\ larger.referenced_fields = fields.referenced_fields
                  /\ fields.passed => larger.passed

\* a document with an unsafe operator and another operator failed against an allow-list
\* that has neither; with both added it has no violation left and still fails
C28_Witness ==
    /\ Returned("eval_operators")
    /\ operators.unsafe_operators # {}
    /\ operators.violations = operators.used_operators
    /\ Cardinality(operators.used_operators) >= 2
    /\ \E more \in AllowedOpsValues :
          LET larger == eval_operators(query_arg, all_operators(WithOperators(allowed_ops, more)))
          IN  /\ larger.violations = {}
              /\ ~larger.passed


\* the fraction a is at most the fraction b; their denominators are positive
AtMost(a, b) == a[1] * b[2] <= b[1] * a[2]

\* a fraction of [0, 1]
InUnitInterval(a) == a[2] > 0 /\ 0 <= a[1] /\ a[1] <= a[2]

\* C26: in every EvalResult of a report a passed operator layer and a passed field layer
\* imply a passed syntax layer; hence the operator and field pass rates are at most the
\* syntax pass rate, the overall pass rate is at most each of them, and the four rates
\* are in [0, 1].
C26_LayersBelowSyntax ==
    Returned("run_eval") =>
        /\ \A i \in 1..Len(report.results) :
              /\ report.results[i].operators.passed => report.results[i].syntax.passed
              /\ report.results[i].fields.passed => report.results[i].syntax.passed
        /\ AtMost(report.operator_pass_rate, report.syntax_pass_rate)
        /\ AtMost(report.field_pass_rate, report.syntax_pass_rate)
        /\ AtMost(report.overall_pass_rate, report.operator_pass_rate)
        /\ AtMost(report.overall_pass_rate, report.field_pass_rate)
        /\ InUnitInterval(report.syntax_pass_rate)
        /\ InUnitInterval(report.operator_pass_rate)
        /\ InUnitInterval(report.field_pass_rate)
        /\ InUnitInterval(report.overall_pass_rate)

\* a batch of two: one prediction is no JSON, the other passes syntax and the field layer
\* and fails the operator layer, so the four rates are 1/2, 0, 1/2 and 0
C26_Witness ==
    /\ Returned("run_eval")
    /\ report.total = 2
    /\ \E i \in 1..2 : ~report.results[i].syntax.valid_json
    /\ report.syntax_pass_rate = <<1, 2>>
    /\ report.operator_pass_rate = <<0, 2>>
    /\ report.field_pass_rate = <<1, 2>>
    /\ report.overall_pass_rate = <<0, 2>>


\* C27: a prediction with an empty body passes everything.  For every example, an empty
\* allow-list and an empty schema included, the predictions {"type":"aggregate",
\* "pipeline":[]} and {"type":"find","filter":{}} pass the three layers and passed_all is
\* true, the coverage is 0 and the errors, the used operators, the violations, the unsafe
\* operators, the referenced fields and the hallucinated fields are empty.
C27_EmptyBodyPasses ==
    (/\ pc \in {"_eval_one", "raised"}
     /\ prediction \in {json_dumps(empty_aggregate), json_dumps(empty_find)}) =>
        /\ Returned("_eval_one")
        /\ eval_one_result.syntax.passed
        /\ eval_one_result.operators.passed
        /\ eval_one_result.fields.passed
        /\ eval_one_result.passed_all
        /\ eval_one_result.fields.coverage[1] = 0
        /\ eval_one_result.syntax.errors = <<>>
        /\ eval_one_result.operators.used_operators = {}
        /\ eval_one_result.operators.violations = {}
        /\ eval_one_result.operators.unsafe_operators = {}
        /\ eval_one_result.fields.referenced_fields = {}
        /\ eval_one_result.fields.hallucinated_fields = {}

\* the empty pipeline was evaluated for an example with an empty schema and an empty
\* allow-list, and passed
C27_Witness ==
    /\ Returned("_eval_one")
    /\ prediction = json_dumps(empty_aggregate)
    /\ example.schema_def.fields = <<>>
    /\ all_operators(example.allowed_ops) = <<>>
    /\ eval_one_result.passed_all


\* the document _eval_one parsed
ParsedPrediction == json_loads(prediction).value

\* the part of it eval_fields scans
SelectedBody ==
    IF has_key(ParsedPrediction, s_pipeline) THEN get(ParsedPrediction, s_pipeline)
    ELSE get(ParsedPrediction, s_filter)

\* the values of its items other than the filter
BesideFilter ==
    {ParsedPrediction.items[i][2] :
        i \in {j \in 1..Len(ParsedPrediction.items) : ParsedPrediction.items[j][1] # s_filter}}

AllHeldOut ==
    /\ Returned("run_eval")
    /\ report.total > 0
    /\ held_out_schemas # JNull
    /\ \A i \in 1..Len(report.results) :
          report.results[i].example.schema_def.collection \in held_out_schemas.names

\* the float -x; -0.0 and 0.0 are equal
Minus(x) == IF x = float_zero THEN float_zero ELSE [x EXCEPT !.sign = 1 - x.sign]

\* C30: when every result of a batch is of a held-out schema, the report has a
\* GeneralizationResult whose three seen rates are 0 and whose held-out rates are those
\* of the whole batch; each gap is minus the held-out rate, and flagged is true exactly
\* when the held-out pass rate of some layer exceeds 0.05.
C30_EmptySeenPartition ==
    AllHeldOut =>
        LET g == report.generalization
        IN  /\ g # JNull
            /\ g.train_syntax_pass_rate = float_zero
            /\ g.train_operator_pass_rate = float_zero
            /\ g.train_field_pass_rate = float_zero
            /\ g.held_out_syntax_pass_rate =
                  int_truediv(report.syntax_pass_rate[1], report.total)
            /\ g.held_out_operator_pass_rate =
                  int_truediv(report.operator_pass_rate[1], report.total)
            /\ g.held_out_field_pass_rate =
                  int_truediv(report.field_pass_rate[1], report.total)
            /\ g.gaps.syntax = Minus(g.held_out_syntax_pass_rate)
            /\ g.gaps.operators = Minus(g.held_out_operator_pass_rate)
            /\ g.gaps.fields = Minus(g.held_out_field_pass_rate)
            /\ g.flagged <=>
                  \/ AboveFivePoints(report.syntax_pass_rate)
                  \/ AboveFivePoints(report.operator_pass_rate)
                  \/ AboveFivePoints(report.field_pass_rate)

\* a batch of two held-out results that pass every layer: the seen rates are 0, the
\* held-out rates 1, and the report is flagged
C30_Witness ==
    /\ AllHeldOut
    /\ report.total = 2
    /\ report.overall_pass_rate = <<2, 2>>
    /\ report.generalization.train_syntax_pass_rate = float_zero
    /\ report.generalization.held_out_syntax_pass_rate = int_truediv(1, 1)
    /\ report.generalization.gaps.fields = Minus(int_truediv(1, 1))
    /\ report.generalization.flagged

\* a batch of held-out results of which none passes a layer is not flagged
C30_NothingPassesNotFlagged ==
    /\ AllHeldOut
    /\ report.syntax_pass_rate[1] = 0
    /\ ~report.generalization.flagged

=============================================================================
